---- MODULE Spec2Model ----
(***************************************************************************)
(* Model of job_search/scripts/auto_apply_linkedin.py: the batch driver    *)
(* main() and the attempt function apply_to_job().                         *)
(*                                                                         *)
(* The browser session is the environment.  Every browser operation that   *)
(* the code issues either completes or raises; what it raises is a         *)
(* Playwright timeout (PWTimeout) or any other exception with a message.   *)
(* What the page shows (entry button, dialog, form content, file inputs,   *)
(* navigation buttons) is chosen by the environment at the operation that  *)
(* reads it.                                                               *)
(***************************************************************************)
EXTENDS Integers, Sequences, FiniteSets, TLC

\* ---------------------------------------------------------------- bounds
\* longest exception message the environment produces
MaxMsgLen == 81
\* largest value of --max
MaxArg == 1
\* regions of one run (5 in REGION_CONFIGS)
MaxRegions == 1
\* roles of one run (6 in SEARCH_ROLES)
MaxRoles == 2
\* jobs returned by one search (25 in the code)
MaxJobs == 1
\* writable controls (file inputs, form controls, cover-letter textarea) of
\* one form: the form writes one attempt can issue
MaxWrites == 1
\* leading steps of a form that show writable controls
MaxFillSteps == 1
\* calls of answer_field in one run
MaxCalls == 2
\* buttons of a page
MaxButtons == 2
\* the longest generated answer
MaxAnswerLen == 2001
\* the longest cover-letter file
MaxCoverLen == 2901

\* ------------------------------------------------------ program constants
\* for step in range(10)
MaxSteps == 10
\* the cut in str(e)[:80]
ReasonLimit == 80
\* url[:60]
UrlCut == 60
\* ai_answer[:2000]
AnswerLimit == 2000
\* read_text(encoding="utf-8")[:2900]
CoverLimit == 2900

\* ------------------------------------------------------------- strings
Min(a, b) == IF a < b THEN a ELSE b

\* s[:n]
Take(s, n) == SubSeq(s, 1, Min(Len(s), n))

\* a in b, for strings
IsSubstr(a, b) ==
    \E i \in 0..(Len(b) - Len(a)) : SubSeq(b, i + 1, i + Len(a)) = a

Chars(n, c) == [i \in 1..n |-> c]

\* the literal reasons of the two fixed error outcomes
TimeoutReason == <<"t", "i", "m", "e", "o", "u", "t">>
NoSubmitReason ==
    <<"n", "o", "_", "s", "u", "b", "m", "i", "t", "_",
      "r", "e", "a", "c", "h", "e", "d">>

\* exception messages: a short one and one of the longest length
Msgs == {<<"e", "r", "r">>, Chars(MaxMsgLen, "x")}

\* what a browser operation can raise
PWTimeout == [kind |-> "PWTimeout", msg |-> <<"t", "o">>]
Faults == {PWTimeout} \cup {[kind |-> "Error", msg |-> m] : m \in Msgs}

NoExc == [kind |-> "none", msg |-> <<>>]

\* ------------------------------------------------------------- outcomes
NoOutcome == [kind |-> "none", reason |-> <<>>]
Applied == [kind |-> "applied", reason |-> <<>>]
Skipped == [kind |-> "skipped", reason |-> <<>>]
DryRun == [kind |-> "dry_run", reason |-> <<>>]
ErrorOutcome(r) == [kind |-> "error", reason |-> r]

\* ----------------------------------------------------------------- urls
\* three job urls: two longer than the cut that agree on their first 60
\* characters, and a short one
UrlStem == Chars(UrlCut, "u")
Url1 == UrlStem \o <<"1">>
Url2 == UrlStem \o <<"2">>
Url3 == <<"v", "3">>
Urls == {Url1, Url2, Url3}

\* the job lists a search can return: distinct urls, at most MaxJobs
RECURSIVE SeqsOver(_, _)
SeqsOver(S, n) ==
    IF n = 0 THEN {<<>>}
    ELSE LET shorter == SeqsOver(S, n - 1)
         IN  shorter \cup {Append(s, x) : s \in shorter, x \in S}

JobLists ==
    {s \in SeqsOver(Urls, MaxJobs) :
        \A i, j \in 1..Len(s) : i # j => s[i] # s[j]}

\* tracker rows as far as the three programs read and write them; key stands
\* for the pair (title.lower().strip(), company.lower().strip())
Row(id, key, url, status) ==
    [id |-> id, key |-> key, url |-> url, status |-> status]

\* the title and company of the posting behind a job url: the first two
\* postings are the same job of the same company, posted twice
TitleOf(url) == IF url = Url3 THEN "b" ELSE "a"

TrackerRow(id, url, status) == Row(id, TitleOf(url), url, status)

\* two rows of one url, as two applied attempts of two runs leave them when
\* apply.py --id and --mark-applied were used in between: the earlier row
\* is applied, the later one is not
RepeatedUrlTracker ==
    <<TrackerRow(1, Url1, "applied"), TrackerRow(2, Url1, "cover_ready")>>

\* tracker.csv at the start of a run: absent, one row, or the two rows
InitTrackers ==
    {<<>>, <<TrackerRow(1, Url1, "applied")>>, <<TrackerRow(1, Url3, "found")>>,
     RepeatedUrlTracker}

\* --------------------------------------------------- answer_field: data
UpperCase == <<"A", "B", "C", "D", "E", "F", "G", "H", "I", "J", "K", "L",
               "M", "N", "O", "P", "Q", "R", "S", "T", "U", "V", "W", "X",
               "Y", "Z">>
LowerCase == <<"a", "b", "c", "d", "e", "f", "g", "h", "i", "j", "k", "l",
               "m", "n", "o", "p", "q", "r", "s", "t", "u", "v", "w", "x",
               "y", "z">>

\* str.lower()
LowerChar(c) ==
    IF \E i \in 1..26 : UpperCase[i] = c
    THEN LowerCase[CHOOSE i \in 1..26 : UpperCase[i] = c]
    ELSE c

Lower(s) == [i \in 1..Len(s) |-> LowerChar(s[i])]

\* str.strip()
RECURSIVE LStrip(_)
LStrip(s) ==
    IF s # <<>> /\ Head(s) = " " THEN LStrip(Tail(s)) ELSE s

RECURSIVE RStrip(_)
RStrip(s) ==
    IF s # <<>> /\ s[Len(s)] = " "
    THEN RStrip(SubSeq(s, 1, Len(s) - 1))
    ELSE s

Strip(s) == RStrip(LStrip(s))

\* the rules of COMMON_ANSWERS that the labels below can match, in the
\* order of the table
COMMON_ANSWERS ==
    <<[key |-> <<"c", "i", "t", "y">>,
       val |-> <<"N", "e", "w", " ", "D", "e", "l", "h", "i">>],
      [key |-> <<"v", "i", "s", "a">>,
       val |-> <<"Y", "e", "s", ",", " ", "I", " ", "r", "e", "q", "u", "i",
                 "r", "e", " ", "s", "p", "o", "n", "s", "o", "r", "s", "h",
                 "i", "p">>],
      [key |-> <<"s", "p", "o", "n", "s", "o", "r", "s", "h", "i", "p">>,
       val |-> <<"Y", "e", "s">>],
      [key |-> <<"n", "o", "t", "i", "c", "e", " ", "p", "e", "r", "i", "o",
                 "d">>,
       val |-> <<"3", "0">>]>>

\* the labels of the controls
Labels ==
    {<<>>,
     <<"C", "i", "t", "y">>,
     <<" ", "N", "o", "t", "i", "c", "e", " ", "p", "e", "r", "i", "o", "d",
       " ">>,
     <<"V", "i", "s", "a", " ", "s", "p", "o", "n", "s", "o", "r", "s", "h",
       "i", "p">>,
     <<"W", "h", "y", " ", "u", "s", "?">>,
     <<"A", "g", "e">>}

\* the option texts of the select controls
OptionLists ==
    {<<<<"S", "e", "l", "e", "c", "t">>, <<"Y", "e", "s">>, <<"N", "o">>>>,
     <<<<>>, <<"N", "o">>, <<"Y", "e", "s">>>>,
     <<<<"S", "e", "l", "e", "c", "t">>, <<"O", "t", "h", "e", "r">>>>,
     <<<<"O", "t", "h", "e", "r">>>>}

\* a control of the form: shown is a non-zero rendered size, disabled the
\* disabled attribute
Control(tag, type, options, checked) ==
    [tag |-> tag, type |-> type, options |-> options, checked |-> checked,
     value |-> <<>>, selected |-> IF options = <<>> THEN 0 ELSE 1,
     shown |-> TRUE, disabled |-> FALSE, cover |-> FALSE]

NoControl == Control("none", "", <<>>, FALSE)

\* a disabled text input, and a textarea of zero size
DisabledInput ==
    [Control("input", "text", <<>>, FALSE) EXCEPT !.disabled = TRUE]
ZeroSizeTextarea ==
    [Control("textarea", "", <<>>, FALSE) EXCEPT !.shown = FALSE]

\* the textarea that is the first match of the cover-letter selector
CoverTextarea == [Control("textarea", "", <<>>, FALSE) EXCEPT !.cover = TRUE]

\* the elements of the form groups; type "" is a missing type attribute
GroupElements ==
    {Control("input", t, <<>>, FALSE) :
        t \in {"", "text", "email", "radio", "file", "hidden"}}
    \cup {Control("input", "checkbox", <<>>, c) : c \in BOOLEAN}
    \cup {Control("textarea", "", <<>>, FALSE)}
    \cup {Control("select", "", o, FALSE) : o \in OptionLists}
    \cup {Control("div", "", <<>>, FALSE)}
    \cup {DisabledInput, ZeroSizeTextarea}

\* "input:not([type='hidden']):not([type='file']), select, textarea"
InputSelector(el) ==
    /\ el.tag \in {"input", "select", "textarea"}
    /\ el.tag = "input" => el.type \notin {"hidden", "file"}

\* inputs = group.query_selector_all(...): the controls answer_field is
\* called with
Controls == {el \in GroupElements : InputSelector(el)}

\* the controls of a step whose groups hold the cover textarea
CoverControls ==
    {Control("input", "text", <<>>, FALSE),
     Control("textarea", "", <<>>, FALSE), CoverTextarea}

\* the actionability a write of the browser library waits for: the element
\* has a size and is enabled; without it the write times out
Actionable(el) == el.shown /\ ~el.disabled

\* a radio of a group: whether a label[for=id] element exists for it, and
\* the text of that label
Radio(labelled, text) == [labelled |-> labelled, text |-> text]

\* the radios of the radio groups
RadioLists ==
    {<<Radio(TRUE, <<"N", "o">>), Radio(TRUE, <<"Y", "e", "s">>)>>,
     <<Radio(TRUE, <<"A">>), Radio(TRUE, <<"B">>)>>,
     <<Radio(FALSE, <<>>), Radio(TRUE, <<"Y", "E", "S">>)>>,
     <<Radio(TRUE, <<"N", "o">>), Radio(TRUE, <<>>)>>}

\* what the generative service returns for one request: no usable response
\* (error, timeout, malformed body) or the text of the first candidate
NoResponse == [ok |-> FALSE, text |-> <<>>]
Response(t) == [ok |-> TRUE, text |-> t]
ServiceTexts == {<<" ", "o", "k", " ">>, <<" ">>}

\* the longest text of the service
LongTexts == {Chars(MaxAnswerLen, "a")}

\* the file get_cover_letter chooses in COVERS_DIR, if there is one, and
\* its text
CoverFile(found, text) == [found |-> found, text |-> text]
CoverFiles ==
    {CoverFile(FALSE, <<>>)}
    \cup {CoverFile(TRUE, t) : t \in {<<>>, <<"h", "i">>}}

\* the longest file, or no file
LongCoverFiles ==
    {CoverFile(FALSE, <<>>), CoverFile(TRUE, Chars(MaxCoverLen, "c"))}

\* ------------------------------------------------ _FIND_NAV_BTN_JS: data
\* const SUBMIT_LABELS
SUBMIT_LABELS ==
    <<<<"s", "u", "b", "m", "i", "t", " ", "a", "p", "p", "l", "i", "c",
        "a", "t", "i", "o", "n">>,
      <<"s", "u", "b", "m", "i", "t">>>>

\* const REVIEW_LABELS
REVIEW_LABELS ==
    <<<<"r", "e", "v", "i", "e", "w", " ", "y", "o", "u", "r", " ", "a",
        "p", "p", "l", "i", "c", "a", "t", "i", "o", "n">>,
      <<"r", "e", "v", "i", "e", "w">>>>

\* const NEXT_LABELS
NEXT_LABELS ==
    <<<<"c", "o", "n", "t", "i", "n", "u", "e", " ", "t", "o", " ", "n",
        "e", "x", "t", " ", "s", "t", "e", "p">>,
      <<"n", "e", "x", "t">>,
      <<"c", "o", "n", "t", "i", "n", "u", "e">>,
      <<"n", "e", "x", "t", " ", "s", "t", "e", "p">>>>

\* const SKIP_LABELS
SKIP_LABELS ==
    <<<<"b", "a", "c", "k">>,
      <<"c", "l", "o", "s", "e">>,
      <<"d", "i", "s", "m", "i", "s", "s">>,
      <<"d", "i", "s", "c", "a", "r", "d">>,
      <<"c", "a", "n", "c", "e", "l">>,
      <<"e", "x", "i", "t">>>>

\* the labels of the click script for action 'next'
CLICK_NEXT_LABELS ==
    <<<<"c", "o", "n", "t", "i", "n", "u", "e", " ", "t", "o", " ", "n",
        "e", "x", "t", " ", "s", "t", "e", "p">>,
      <<"n", "e", "x", "t">>,
      <<"c", "o", "n", "t", "i", "n", "u", "e">>>>

\* a button of the document: aria-label (empty if the attribute is missing),
\* innerText, non-zero size, disabled, and whether it is inside the search
\* area of the fallback rule (the footer of the dialog, or the dialog if it
\* has no footer)
Button(al, txt, shown, disabled, area) ==
    [al |-> al, txt |-> txt, shown |-> shown, disabled |-> disabled,
     area |-> area]

\* an enabled submit button
BtnSubmit ==
    Button(<<"S", "u", "b", "m", "i", "t", " ", "a", "p", "p", "l", "i",
           "c", "a", "t", "i", "o", "n">>,
           <<"S", "u", "b", "m", "i", "t", " ", "a", "p", "p", "l", "i",
           "c", "a", "t", "i", "o", "n">>,
           TRUE, FALSE, TRUE)

\* a disabled submit button
BtnSubmitDisabled ==
    Button(<<"S", "u", "b", "m", "i", "t", " ", "a", "p", "p", "l", "i",
           "c", "a", "t", "i", "o", "n">>,
           <<"S", "u", "b", "m", "i", "t", " ", "a", "p", "p", "l", "i",
           "c", "a", "t", "i", "o", "n">>,
           TRUE, TRUE, TRUE)

\* a review button: the text has blanks around it
BtnReview ==
    Button(<<"R", "e", "v", "i", "e", "w", " ", "y", "o", "u", "r", " ",
           "a", "p", "p", "l", "i", "c", "a", "t", "i", "o", "n">>,
           <<" ", "R", "e", "v", "i", "e", "w", " ">>,
           TRUE, FALSE, TRUE)

\* a next button: the aria-label is in the vocabulary
BtnNext ==
    Button(<<"C", "o", "n", "t", "i", "n", "u", "e", " ", "t", "o", " ",
           "n", "e", "x", "t", " ", "s", "t", "e", "p">>,
           <<"N", "e", "x", "t">>,
           TRUE, FALSE, TRUE)

\* a next button of zero size outside the dialog
BtnNextHidden ==
    Button(<<>>,
           <<"N", "e", "x", "t">>,
           FALSE, FALSE, FALSE)

\* a footer button of no vocabulary
BtnSave ==
    Button(<<>>,
           <<"S", "a", "v", "e">>,
           TRUE, FALSE, TRUE)

\* a second footer button of no vocabulary
BtnDone ==
    Button(<<>>,
           <<"D", "o", "n", "e">>,
           TRUE, FALSE, TRUE)

\* a button outside the search area
BtnMenu ==
    Button(<<>>,
           <<"M", "e", "n", "u">>,
           TRUE, FALSE, FALSE)

\* a button with a skip label
BtnBack ==
    Button(<<>>,
           <<"B", "a", "c", "k">>,
           TRUE, FALSE, TRUE)

\* a button with an aria-label and no text
BtnHelp ==
    Button(<<"H", "e", "l", "p">>,
           <<>>,
           TRUE, FALSE, TRUE)

\* the buttons a page can show
PageButtons ==
    {BtnSubmit, BtnSubmitDisabled, BtnReview, BtnNext, BtnNextHidden,
     BtnSave, BtnDone, BtnMenu, BtnBack, BtnHelp}

\* the documents a step can show: its buttons in document order
Pages == SeqsOver(PageButtons, MaxButtons)

\* the documents the steps of an attempt show
StepPages ==
    {<<>>, <<BtnSubmit>>, <<BtnSubmitDisabled>>, <<BtnReview>>, <<BtnNext>>,
     <<BtnSave>>, <<BtnBack>>, <<BtnNextHidden, BtnNext>>,
     <<BtnSubmitDisabled, BtnSubmit>>, <<BtnNext, BtnSubmit>>,
     <<BtnNextHidden, BtnSave>>, <<BtnBack, BtnReview>>}

VARIABLES
    \* ---- main()
    mpc,            \* position of main
    dry_run,        \* args.dry_run
    max_arg,        \* args.max
    regions,        \* the regions of the run
    n_roles,        \* len(roles)
    ri,             \* index of the current region
    roi,            \* index of the current role
    jobs,           \* jobs of the current search not yet visited
    job,            \* url of the job being attempted
    applied_count, skipped_count, error_count,
    applied_urls,
    tracker,        \* rows of tracker.csv
    tracker_writes, \* writes of tracker.csv in this run
    \* ---- apply_to_job()
    pc,             \* position inside apply_to_job
    step,           \* loop variable of the form-step loop
    log_lines,
    nav,            \* what _FIND_NAV_BTN_JS returned in this step, until
                    \* its click is done
    buttons,        \* the buttons of the document that _FIND_NAV_BTN_JS
                    \* and the click script of the step run on
    clicked_btn,    \* position in the document of the button that the
                    \* click script of this step clicked, 0 if none
    exc,            \* exception in flight
    decided,        \* value of the return statement that was executed
    result,         \* value the caller received
    raised,         \* exception that left apply_to_job
    log_file,       \* content written by the last log write
    log_writes,     \* write_text calls of this attempt
    steps_run,      \* loop iterations started in this attempt
    \* ---- browser operations issued in this attempt
    entry_clicks,   \* clicks on the entry button
    dialog_waits,   \* waits for the dialog
    content_checks, \* form-content evaluations
    close_evals,    \* evaluations of _CLOSE_MODAL_JS
    close_clicks,   \* clicks issued by _CLOSE_MODAL_JS
    form_writes,    \* uploads, control writes, radio clicks, cover fills
    nav_clicked,    \* a click on a review/next button was issued
    submit_clicks,  \* clicks on a submit button
    \* ---- what the environment did in this attempt
    entry_button,   \* "unknown", or what both searches for the entry
                    \* button found: "present" or "absent"
    dialog,         \* what the click on the entry button brought up:
                    \* "none", "empty" (no form content) or "form";
                    \* "closed" before the click
    stalled,        \* a step showed no actionable button
    write_failed,   \* the log write raised
    cover_area,     \* cover_textareas[0] in this step: whether it was
                    \* seen, its content, whether answer_field wrote it
    cover_letter,   \* get_cover_letter in this step: whether it was
                    \* called, the file it chose, what it returned, and
                    \* the fill: "no", "ok" or "raised"
    file_inputs,    \* the file inputs of this step, from their handling
                    \* to the start of the group loop: how many were
                    \* found, whether the CV exists, the uploads issued
    faults,         \* where exceptions were raised: "boundary" (an
                    \* operation inside the try), "close" (the close
                    \* attempt of an except clause), "swallowed" (an
                    \* operation inside a try/except Exception: pass of
                    \* a form step), "write" (that operation was a write
                    \* to a control)
    \* ---- answer_field() and _gemini_form_answer()
    fpc,            \* position inside answer_field
    label_text,     \* argument label_text
    input_el,       \* the control input_el: tag, type attribute, options,
                    \* checked state, value, selected option
    label_lower,    \* label_text.lower().strip()
    ki,             \* position of the loop over COMMON_ANSWERS
    ret,            \* value the call returned
    writes,         \* writes issued to the control in this call
    radios,         \* the radios of the group of the control
    radio_clicks,   \* radio clicks issued for the group
    GEMINI_API_KEY, \* a key is configured
    GEMINI_FORM_CACHE,
    asked,          \* questions passed to _gemini_form_answer in this run
    requests,       \* requests sent to the generative service in this run
    calls           \* form groups started in this run, each with one
                    \* call of answer_field

mainVars == <<mpc, dry_run, max_arg, regions, n_roles, ri, roi, jobs, job,
              applied_count, skipped_count, error_count, applied_urls,
              tracker, tracker_writes>>

opVars == <<entry_clicks, dialog_waits, content_checks, close_evals,
            close_clicks, form_writes, nav_clicked, submit_clicks>>

envVars == <<entry_button, dialog, stalled, write_failed, faults>>

pageVars == <<buttons, clicked_btn>>

uploadVars == <<file_inputs>>

coverVars == <<cover_area, cover_letter>>

attemptVars == <<pc, step, log_lines, nav, exc, decided, result, raised,
                 log_file, log_writes, steps_run, opVars, envVars,
                 pageVars, uploadVars, coverVars>>

fieldVars == <<fpc, label_text, input_el, label_lower, ki, ret, writes,
               radios, radio_clicks, GEMINI_API_KEY, GEMINI_FORM_CACHE,
               asked, requests, calls>>

\* the variables of apply_to_job that the handling of a form group leaves
\* alone: all but pc, exc and faults
groupFrame == <<step, log_lines, nav, decided, result, raised,
                log_file, log_writes, steps_run, opVars, pageVars,
                entry_button, dialog, stalled, write_failed>>

vars == <<mainVars, attemptVars, fieldVars>>

\* ------------------------------------------------------------ log lines
\* A log line is its kind, the step number of a "Step n" line, the job of
\* the header line and the message of an exception line; the rest of a
\* line's text is fixed by its kind.
Line(kind) == [line |-> kind, n |-> 0, text |-> <<>>]
HeaderLine(j) == [line |-> "header", n |-> 0, text |-> j]
StepLine(k) == [line |-> "step", n |-> k, text |-> <<>>]
ExceptionLine(m) == [line |-> "exception", n |-> 0, text |-> m]

\* the separator of "\n".join
NewLine == [line |-> "\n", n |-> 0, text |-> <<>>]

\* variant: the last line is missing from the file
RECURSIVE JoinLinesButLast(_)
JoinLinesButLast(lines) ==
    IF Len(lines) <= 1 THEN <<>>
    ELSE IF Len(lines) = 2 THEN <<Head(lines)>>
    ELSE <<Head(lines), NewLine>> \o JoinLinesButLast(Tail(lines))

\* "\n".join(lines): the lines with a newline between neighbours
RECURSIVE JoinLines(_)
JoinLines(lines) ==
    IF Len(lines) = 0 THEN <<>>
    ELSE IF Len(lines) = 1 THEN lines
    ELSE <<Head(lines), NewLine>> \o JoinLines(Tail(lines))

\* what _FIND_NAV_BTN_JS returns: action, label, and whether the button
\* was found by the fallback rule (debug: 'fallback')
NavResult(action, label, fallback) ==
    [action |-> action, label |-> label, fallback |-> fallback]

\* {action: null, label: null, ...}
\* the cover textarea before the step has come to it
NoArea == [seen |-> FALSE, value |-> <<>>, resolver |-> FALSE]

\* get_cover_letter was not called
NoLetter ==
    [called |-> FALSE, file |-> CoverFile(FALSE, <<>>), cl |-> <<>>,
     filled |-> "no"]

\* no file inputs were handled
NoFiles == [found |-> 0, exists |-> FALSE, issued |-> 0, handled |-> FALSE]

NavNone == NavResult("none", <<>>, FALSE)

\* --------------------------------------------------------------- Init
\* no call of answer_field is in progress and none was made
FieldIdle ==
    /\ fpc = "idle"
    /\ label_text = <<>>
    /\ input_el = NoControl
    /\ label_lower = <<>>
    /\ ki = 1
    /\ ret = "none"
    /\ writes = <<>>
    /\ radios = <<>>
    /\ radio_clicks = <<>>
    /\ GEMINI_FORM_CACHE = <<>>
    /\ asked = <<>>
    /\ requests = <<>>
    /\ calls = 0

FreshAttempt ==
    /\ file_inputs = NoFiles
    /\ cover_area = NoArea
    /\ cover_letter = NoLetter
    /\ step = 0
    /\ log_lines = <<>>
    /\ nav = NavNone
    /\ buttons = <<>>
    /\ clicked_btn = 0
    /\ exc = NoExc
    /\ decided = NoOutcome
    /\ result = NoOutcome
    /\ raised = NoExc
    /\ log_file = <<>>
    /\ log_writes = 0
    /\ steps_run = 0
    /\ entry_clicks = 0
    /\ dialog_waits = 0
    /\ content_checks = 0
    /\ close_evals = 0
    /\ close_clicks = 0
    /\ form_writes = 0
    /\ nav_clicked = FALSE
    /\ submit_clicks = 0
    /\ entry_button = "unknown"
    /\ dialog = "closed"
    /\ stalled = FALSE
    /\ write_failed = FALSE
    /\ faults = {}

\* applied_urls = {url for url, row in existing_tracker.items()
\*                 if row.get("status") == "applied"}, where load_tracker
\* keeps the last row of every url
AppliedUrlsOf(rows) ==
    {rows[i].url : i \in {k \in 1..Len(rows) :
        /\ rows[k].status = "applied"
        /\ \A m \in (k + 1)..Len(rows) : rows[m].url # rows[k].url}}

RegionLists ==
    {<<"unknown">>} \cup {[i \in 1..n |-> "known"] : n \in 1..MaxRegions}

Init ==
    /\ mpc = "role"
    /\ dry_run \in BOOLEAN
    /\ max_arg \in 0..MaxArg
    /\ regions \in RegionLists
    /\ n_roles \in 1..MaxRoles
    /\ ri = 1
    /\ roi = 1
    /\ jobs = <<>>
    /\ job = <<>>
    /\ applied_count = 0
    /\ skipped_count = 0
    /\ error_count = 0
    /\ tracker \in InitTrackers
    /\ applied_urls = AppliedUrlsOf(tracker)
    /\ tracker_writes = 0
    /\ pc = "idle"
    /\ FreshAttempt
    /\ GEMINI_API_KEY = FALSE
    /\ FieldIdle

\* ------------------------------------------------------- apply_to_job
Log(l) == log_lines' = Append(log_lines, l)

\* an operation inside the try raises: control goes to the except clauses
Raise(f) ==
    /\ exc' = f
    /\ pc' = "except"
    /\ faults' = faults \cup {"boundary"}

\* a return statement inside the try: the finally clause runs next
Return(o) ==
    /\ decided' = o
    /\ pc' = "finally"

\* variant: every matching button is clicked, not only the first
CloseModalClicksAll(found) == IF found THEN 2 ELSE 0

\* _CLOSE_MODAL_JS: if (btn) { btn.click(); return true; }
CloseModalClicks(found) == IF found THEN 1 ELSE 0

\* page.evaluate(_CLOSE_MODAL_JS) completes
CloseModal ==
    \E found \in BOOLEAN :
        close_clicks' = close_clicks + CloseModalClicks(found)

\* page.goto(job_url), then the wait for the job detail panel: a timeout of
\* wait_for_selector is caught and replaced by wait_for_timeout(3000)
Goto ==
    /\ UNCHANGED coverVars
    /\ UNCHANGED uploadVars
    /\ pc = "goto"
    /\ UNCHANGED pageVars
    /\ UNCHANGED <<mainVars, fieldVars, step, log_lines, nav, decided, result,
                   raised, log_file, log_writes, steps_run, opVars,
                   entry_button,
                   dialog, stalled, write_failed>>
    /\ \/ \* page.goto raises, or wait_for_selector raises another fault,
          \* or it times out and wait_for_timeout raises
          \E f \in Faults : Raise(f)
       \/ \* the panel appears, or the wait times out and
          \* wait_for_timeout completes
          /\ pc' = "entry"
          /\ UNCHANGED <<exc, faults>>

\* variant: the missing button is reported as an error
NoEntryOutcomeError == ErrorOutcome(<<"n", "o", "n", "e">>)

\* return "skipped" when neither search finds the button
NoEntryOutcome == Skipped

\* the two searches for the Easy Apply button and the click on it
EntryDetect ==
    /\ UNCHANGED coverVars
    /\ UNCHANGED uploadVars
    /\ pc = "entry"
    /\ UNCHANGED pageVars
    /\ UNCHANGED <<mainVars, fieldVars, step, nav, result, raised, log_file,
                   log_writes, steps_run, dialog_waits, content_checks,
                   close_evals, close_clicks, form_writes, nav_clicked,
                   submit_clicks, stalled, write_failed>>
    /\ \/ \* the evaluate or the fallback query_selector raises
          /\ \E f \in Faults : Raise(f)
          /\ UNCHANGED <<log_lines, decided, entry_clicks, entry_button,
                         dialog>>
       \/ \* neither finds a button
          /\ entry_button' = "absent"
          /\ Log(Line("no_easy_apply"))
          /\ Return(NoEntryOutcome)
          /\ UNCHANGED <<exc, faults, entry_clicks, dialog>>
       \/ \* the click raises
          /\ entry_button' = "present"
          /\ entry_clicks' = entry_clicks + 1
          /\ \E f \in Faults : Raise(f)
          /\ UNCHANGED <<log_lines, decided, dialog>>
       \/ \* found by either search, and clicked
          /\ entry_button' = "present"
          /\ entry_clicks' = entry_clicks + 1
          /\ dialog' \in {"none", "empty", "form"}
          /\ Log(Line("easy_apply_clicked"))
          /\ pc' = "dry_check"
          /\ UNCHANGED <<exc, faults, decided>>

\* variant: the flag is not consulted
DryRunRequestedNever == FALSE

\* if dry_run:
DryRunRequested == dry_run

\* variant: the dry run reports a skip
DryRunOutcomeSkipped == Skipped

\* return "dry_run"
DryRunOutcome == DryRun

\* if dry_run: log, page.evaluate(_CLOSE_MODAL_JS), return "dry_run"
DryRunCheck ==
    /\ UNCHANGED coverVars
    /\ UNCHANGED uploadVars
    /\ pc = "dry_check"
    /\ UNCHANGED pageVars
    /\ UNCHANGED <<mainVars, fieldVars, step, nav, result, raised, log_file,
                   log_writes, steps_run, entry_clicks, dialog_waits,
                   content_checks, form_writes, nav_clicked, submit_clicks,
                   entry_button, dialog, stalled, write_failed>>
    /\ IF DryRunRequested
       THEN /\ Log(Line("dry_run"))
            /\ close_evals' = close_evals + 1
            /\ \/ /\ \E f \in Faults : Raise(f)
                  /\ UNCHANGED <<decided, close_clicks>>
               \/ /\ CloseModal
                  /\ Return(DryRunOutcome)
                  /\ UNCHANGED <<exc, faults>>
       ELSE /\ pc' = "modal"
            /\ UNCHANGED <<log_lines, decided, exc, faults, close_evals,
                           close_clicks>>

\* variant: the timeout of the dialog wait is reported like any timeout
ModalTimeoutOutcomeError == ErrorOutcome(TimeoutReason)

\* except PWTimeout around the dialog wait: return "skipped"
ModalTimeoutOutcome == Skipped

\* wait for the Easy Apply modal: a timeout is caught and returns
\* "skipped"; then wait_for_timeout(1000)
ModalOpening ==
    /\ UNCHANGED coverVars
    /\ UNCHANGED uploadVars
    /\ pc = "modal"
    /\ dialog_waits' = dialog_waits + 1
    /\ UNCHANGED pageVars
    /\ UNCHANGED <<mainVars, fieldVars, step, nav, result, raised, log_file,
                   log_writes, steps_run, entry_clicks, content_checks,
                   close_evals, close_clicks, form_writes, nav_clicked,
                   submit_clicks, entry_button, dialog, stalled,
                   write_failed>>
    /\ \/ \* no dialog within the timeout
          /\ dialog = "none"
          /\ Log(Line("modal_did_not_open"))
          /\ Return(ModalTimeoutOutcome)
          /\ UNCHANGED <<exc, faults>>
       \/ \* the wait raises another fault
          /\ \E f \in Faults \ {PWTimeout} : Raise(f)
          /\ UNCHANGED <<log_lines, decided>>
       \/ \* the dialog appeared; wait_for_timeout(1000) raises
          /\ dialog # "none"
          /\ \E f \in Faults : Raise(f)
          /\ UNCHANGED <<log_lines, decided>>
       \/ /\ dialog # "none"
          /\ pc' = "content"
          /\ UNCHANGED <<log_lines, decided, exc, faults>>

\* has_form_content, and the return "skipped" without it
FormContentCheck ==
    /\ UNCHANGED coverVars
    /\ UNCHANGED uploadVars
    /\ pc = "content"
    /\ content_checks' = content_checks + 1
    /\ UNCHANGED pageVars
    /\ UNCHANGED <<mainVars, fieldVars, step, nav, result, raised, log_file,
                   log_writes, steps_run, entry_clicks, dialog_waits,
                   close_evals, close_clicks, form_writes, nav_clicked,
                   submit_clicks, entry_button, dialog, stalled,
                   write_failed>>
    /\ \/ /\ \E f \in Faults : Raise(f)
          /\ UNCHANGED <<log_lines, decided>>
       \/ /\ dialog = "empty"
          /\ Log(Line("no_form_content"))
          /\ Return(Skipped)
          /\ UNCHANGED <<exc, faults>>
       \/ /\ dialog = "form"
          /\ pc' = "loop"
          /\ UNCHANGED <<log_lines, decided, exc, faults>>

\* variant: one iteration too many
LoopContinuesInclusive(k) == k <= MaxSteps

\* range(10): the loop goes on while the index is below 10
LoopContinues(k) == k < MaxSteps

\* variant: the loop variable does not advance
NextStepStuck(k) == k

\* the next value of the loop variable
NextStep(k) == k + 1

\* variant: the log numbers the steps from 0
StepNumberZeroBased(k) == k

\* the number in f"  -> Step {step + 1}"
StepNumber(k) == k + 1

\* for step in range(10): log_lines.append(f"  -> Step {step + 1}")
LoopHead ==
    /\ UNCHANGED coverVars
    /\ UNCHANGED uploadVars
    /\ pc = "loop"
    /\ UNCHANGED <<mainVars, fieldVars, step, nav, exc, decided, result,
                   raised, log_file, log_writes, opVars, envVars, buttons>>
    /\ clicked_btn' = 0
    /\ IF LoopContinues(step)
       THEN /\ Log(StepLine(StepNumber(step)))
            /\ steps_run' = steps_run + 1
            /\ pc' = "upload"
       ELSE /\ pc' = "after_loop"
            /\ UNCHANGED <<log_lines, steps_run>>

\* the writes the environment still lets this step issue
Writable == IF step < MaxFillSteps THEN MaxWrites - form_writes ELSE 0

RECURSIVE Repeat(_, _)
Repeat(l, n) == IF n = 0 THEN <<>> ELSE <<l>> \o Repeat(l, n - 1)

\* variant: the clauses catch timeouts only
CaughtTimeoutOnly(f) == f.kind = "PWTimeout"

\* except Exception: every fault of a browser operation is caught, a
\* timeout included
Caught(f) == f.kind \in {"PWTimeout", "Error"}

\* the tags of a swallowed fault of a query or wait, and of a write
QueryFault == {"swallowed"}
WriteFault == {"swallowed", "write"}

\* try: <an operation raises> except Exception: pass, and on to position to
ExceptPass(tags, to) ==
    \/ /\ \E f \in Faults : Caught(f)
       /\ faults' = faults \cup tags
       /\ pc' = to
       /\ UNCHANGED exc
    \/ \E f \in Faults :
          /\ ~Caught(f)
          /\ faults' = faults \cup tags \cup {"boundary"}
          /\ pc' = "except"
          /\ exc' = f

\* the operations of the try block complete, and on to position to
NoFault(to) ==
    /\ pc' = to
    /\ UNCHANGED <<exc, faults>>

\* variant: the upload does not depend on the CV file
UploadsAlways(found, exists) == found

\* for fi in file_inputs: if Path(CV_PATH).exists(): fi.set_input_files:
\* the uploads issued for found file inputs
Uploads(found, exists) == IF exists THEN found ELSE 0

\* the file inputs of the step: for each, if the CV exists, set_input_files,
\* a log line and a wait, with every fault of the three swallowed.
\* found file inputs, n uploads are issued, ok of them complete and are
\* logged; sw: an upload or the wait after one raised.
StepUpload ==
    /\ UNCHANGED coverVars
    /\ pc = "upload"
    /\ UNCHANGED pageVars
    /\ UNCHANGED <<mainVars, fieldVars, step, nav, decided, result, raised,
                   log_file,
                   log_writes, steps_run, entry_clicks, dialog_waits,
                   content_checks, close_evals, close_clicks, nav_clicked,
                   submit_clicks, entry_button, dialog, stalled,
                   write_failed>>
    /\ \/ \* query_selector_all("input[type='file']") raises
          /\ \E f \in Faults : Raise(f)
          /\ UNCHANGED <<log_lines, form_writes, file_inputs>>
       \/ \E found \in 0..Writable : \E exists \in BOOLEAN :
          LET n == Uploads(found, exists) IN
          \E ok \in 0..n : \E sw \in BOOLEAN :
            /\ ok < n => sw
            /\ n = 0 => ~sw
            /\ file_inputs' = [found |-> found, exists |-> exists,
                               issued |-> n, handled |-> TRUE]
            /\ form_writes' = form_writes + n
            /\ log_lines' = log_lines \o Repeat(Line("uploaded_cv"), ok)
            /\ IF ok < n THEN ExceptPass(WriteFault, "groups")
               ELSE IF sw THEN ExceptPass(QueryFault, "groups")
               ELSE NoFault("groups")

\* the form groups of the step: answer_field on every input of a group and
\* the radio click of a labelled radio group, inside try/except Exception
\* per group.  n writes are issued; sw: an operation on a group (a query,
\* a write, a radio click) raised and was swallowed.
StepGroups ==
    /\ UNCHANGED coverVars
    /\ file_inputs' = NoFiles
    /\ pc = "groups"
    /\ UNCHANGED pageVars
    /\ UNCHANGED <<mainVars, fieldVars, step, log_lines, nav, decided, result,
                   raised, log_file, log_writes, steps_run, entry_clicks,
                   dialog_waits, content_checks, close_evals, close_clicks,
                   nav_clicked, submit_clicks, entry_button, dialog,
                   stalled, write_failed>>
    /\ \/ \* query_selector_all of the groups raises
          /\ \E f \in Faults : Raise(f)
          /\ UNCHANGED form_writes
       \/ \E n \in 0..Writable : \E sw \in BOOLEAN :
            /\ sw => Writable > 0
            /\ form_writes' = form_writes + n
            /\ IF sw THEN ExceptPass(QueryFault, "cover")
               ELSE NoFault("cover")

\* variant: the text of the file is returned whole
get_cover_letter_whole(file) == IF file.found THEN file.text ELSE <<>>

\* get_cover_letter: the text of the chosen file cut to the limit, "" if
\* COVERS_DIR has no file to choose
get_cover_letter(file) ==
    IF file.found THEN Take(file.text, CoverLimit) ELSE <<>>

\* variant: the fill leaves what answer_field wrote
CoverFillKeeps(area, cl) ==
    IF area.resolver THEN [area EXCEPT !.seen = TRUE]
    ELSE [area EXCEPT !.seen = TRUE, !.value = cl]

\* cover_textareas[0].fill(cl) completed
CoverFill(area, cl) == [area EXCEPT !.seen = TRUE, !.value = cl]

\* the cover-letter textarea, then wait_for_timeout(600)
CoverLetter(files) ==
    /\ UNCHANGED uploadVars
    /\ pc = "cover"
    /\ UNCHANGED pageVars
    /\ UNCHANGED <<mainVars, fieldVars, step, nav, decided, result, raised,
                   log_file,
                   log_writes, steps_run, entry_clicks, dialog_waits,
                   content_checks, close_evals, close_clicks, nav_clicked,
                   submit_clicks, entry_button, dialog, stalled,
                   write_failed>>
    /\ \/ \* the query raises, or get_cover_letter raises
          /\ \E f \in Faults : Raise(f)
          /\ cover_area' = NoArea
          /\ cover_letter' = NoLetter
          /\ UNCHANGED <<log_lines, form_writes>>
       \/ \* no textarea
          /\ ~cover_area.seen
          /\ pc' = "nav"
          /\ UNCHANGED <<log_lines, form_writes, exc, faults, coverVars>>
       \/ \* cl = get_cover_letter(job_title)
          \E file \in files :
            LET cl == get_cover_letter(file)
                letter(filled) ==
                    cover_letter' = [called |-> TRUE, file |-> file,
                                     cl |-> cl, filled |-> filled]
            IN
            IF cl = <<>>
            THEN \* if cl: no cover letter
                 /\ letter("no")
                 /\ cover_area' = [cover_area EXCEPT !.seen = TRUE]
                 /\ pc' = "nav"
                 /\ UNCHANGED <<log_lines, form_writes, exc, faults>>
            ELSE /\ Writable > 0
                 /\ form_writes' = form_writes + 1
                 /\ \/ \* fill(cl) completes
                       /\ letter("ok")
                       /\ cover_area' = CoverFill(cover_area, cl)
                       /\ Log(Line("filled_cover_letter"))
                       /\ pc' = "nav"
                       /\ UNCHANGED <<exc, faults>>
                    \/ \* fill(cl) raises: swallowed
                       /\ letter("raised")
                       /\ cover_area' = [cover_area EXCEPT !.seen = TRUE]
                       /\ ExceptPass(WriteFault, "nav")
                       /\ UNCHANGED log_lines
                    \/ \* wait_for_timeout(600) raises after the fill
                       /\ cover_area' = NoArea
                       /\ cover_letter' = NoLetter
                       /\ Log(Line("filled_cover_letter"))
                       /\ \E f \in Faults : Raise(f)

\* the cover letter of a short file, an empty file or no file
StepCover == CoverLetter(CoverFiles)

\* the cover letter of the longest file or of no file
StepCoverLong == CoverLetter(LongCoverFiles)

\* (b.getAttribute('aria-label') || '').toLowerCase().trim()
Al(b) == Strip(Lower(b.al))

\* b.innerText.toLowerCase().trim()
Txt(b) == Strip(Lower(b.txt))

\* s.startsWith(p)
StartsWith(s, p) == Len(p) <= Len(s) /\ SubSeq(s, 1, Len(p)) = p

\* labels.some(l => al === l || txt === l || al.startsWith(l)
\*                  || txt.startsWith(l))
MatchesLabels(b, labels) ==
    \E i \in 1..Len(labels) :
        \/ Al(b) = labels[i]
        \/ Txt(b) = labels[i]
        \/ StartsWith(Al(b), labels[i])
        \/ StartsWith(Txt(b), labels[i])

\* Array.find: the first of the positions that pass the test, 0 if there
\* is none
Find(passing) ==
    IF passing = {} THEN 0
    ELSE CHOOSE i \in passing : \A m \in passing : i <= m

\* the filter of allBtns: r.width > 0 && r.height > 0 && !b.disabled
allBtns(b) == b.shown /\ ~b.disabled

\* matchBtn(labels), over allBtns
matchBtn(page, labels) ==
    Find({i \in 1..Len(page) :
            allBtns(page[i]) /\ MatchesLabels(page[i], labels)})

\* SKIP_LABELS.some(l => al.includes(l) || txt === l)
SkipLabel(b) ==
    \E i \in 1..Len(SKIP_LABELS) :
        IsSubstr(SKIP_LABELS[i], Al(b)) \/ Txt(b) = SKIP_LABELS[i]

\* primaryBtn: the first button of the search area that has no skip label,
\* has a size, is enabled and has text
primaryBtn(page) ==
    Find({i \in 1..Len(page) :
            /\ page[i].area
            /\ ~SkipLabel(page[i])
            /\ page[i].shown /\ ~page[i].disabled
            /\ Len(Txt(page[i])) > 0})

\* b.getAttribute('aria-label') || b.innerText.trim()
ButtonLabel(b) == IF b.al # <<>> THEN b.al ELSE Strip(b.txt)

\* variant: the next vocabulary is tried before the submit vocabulary
FIND_NAV_BTN_JS_NextFirst(page) ==
    LET submit == matchBtn(page, SUBMIT_LABELS)
        next == matchBtn(page, NEXT_LABELS)
    IN  IF next # 0
        THEN NavResult("next", ButtonLabel(page[next]), FALSE)
        ELSE IF submit # 0
        THEN NavResult("submit", ButtonLabel(page[submit]), FALSE)
        ELSE NavNone

\* _FIND_NAV_BTN_JS on a document
FIND_NAV_BTN_JS(page) ==
    LET submit == matchBtn(page, SUBMIT_LABELS)
        review == matchBtn(page, REVIEW_LABELS)
        next == matchBtn(page, NEXT_LABELS)
        primary == primaryBtn(page)
    IN  IF submit # 0
        THEN NavResult("submit", ButtonLabel(page[submit]), FALSE)
        ELSE IF review # 0
        THEN NavResult("review", ButtonLabel(page[review]), FALSE)
        ELSE IF next # 0
        THEN NavResult("next", ButtonLabel(page[next]), FALSE)
        ELSE IF primary # 0
        THEN NavResult("next", ButtonLabel(page[primary]), TRUE)
        ELSE NavNone

\* variant: every click script searches for the next vocabulary
ClickLabelsNextOnly(action) == CLICK_NEXT_LABELS

\* the labels the click script of an action searches for
ClickLabels(action) ==
    IF action = "submit" THEN SUBMIT_LABELS
    ELSE IF action = "review" THEN REVIEW_LABELS \o CLICK_NEXT_LABELS
    ELSE CLICK_NEXT_LABELS

\* the button the click script clicks: btns.find over every button of the
\* document, hidden and disabled ones included; 0: if (btn) is false
ClickTarget(page, action) ==
    Find({i \in 1..Len(page) :
            MatchesLabels(page[i], ClickLabels(action))})

\* both scripts, tabulated over the documents
NavOf == [page \in Pages |-> FIND_NAV_BTN_JS(page)]

ClickOf ==
    [page \in Pages |->
        [action \in {"submit", "review", "next"} |->
            ClickTarget(page, action)]]

\* nav = page.evaluate(_FIND_NAV_BTN_JS); no action: log and break
DetectNav(pages) ==
    /\ cover_area' = NoArea
    /\ cover_letter' = NoLetter
    /\ UNCHANGED uploadVars
    /\ pc = "nav"
    /\ UNCHANGED <<mainVars, fieldVars, step, decided, result, raised,
                   log_file,
                   log_writes, steps_run, opVars, entry_button, dialog,
                   write_failed, clicked_btn>>
    /\ \/ /\ \E f \in Faults : Raise(f)
          /\ UNCHANGED <<log_lines, nav, stalled, buttons>>
       \/ \E page \in pages :
            /\ buttons' = page
            /\ nav' = NavOf[page]
            /\ IF nav'.action = "none"
               THEN /\ log_lines' = log_lines \o
                         <<Line("nav_found"), Line("no_nav_button")>>
                    /\ stalled' = TRUE
                    /\ pc' = "after_loop"
               ELSE /\ Log(Line("nav_found"))
                    /\ pc' = "click"
                    /\ UNCHANGED stalled
            /\ UNCHANGED <<exc, faults>>

\* the detection on the documents the steps of an attempt show
StepNav == DetectNav(StepPages)

\* the detection on any document
StepNavAny == DetectNav(Pages)

\* action == "submit": click, wait, log, dismiss, return "applied"
SubmitStep ==
    /\ UNCHANGED coverVars
    /\ UNCHANGED uploadVars
    /\ pc = "click"
    /\ nav.action = "submit"
    /\ buttons' = <<>>
    /\ UNCHANGED <<mainVars, fieldVars, step, nav, result, raised, log_file,
                   log_writes, steps_run, entry_clicks, dialog_waits,
                   content_checks, form_writes, nav_clicked, entry_button,
                   dialog, stalled, write_failed>>
    /\ LET target == ClickOf[buttons]["submit"]
           Click == /\ clicked_btn' = target
                    /\ submit_clicks' =
                          submit_clicks + IF target # 0 THEN 1 ELSE 0
       IN
       \/ \* the click evaluation raises
          /\ \E f \in Faults : Raise(f)
          /\ UNCHANGED <<log_lines, decided, submit_clicks, close_evals,
                         close_clicks, clicked_btn>>
       \/ \* clicked; wait_for_timeout(2500) raises
          /\ Click
          /\ \E f \in Faults : Raise(f)
          /\ UNCHANGED <<log_lines, decided, close_evals, close_clicks>>
       \/ \* clicked, logged; the dismiss evaluation raises
          /\ Click
          /\ Log(Line("submitted"))
          /\ close_evals' = close_evals + 1
          /\ \E f \in Faults : Raise(f)
          /\ UNCHANGED <<decided, close_clicks>>
       \/ /\ Click
          /\ Log(Line("submitted"))
          /\ close_evals' = close_evals + 1
          /\ CloseModal
          /\ Return(Applied)
          /\ UNCHANGED <<exc, faults>>

\* action in ("review", "next"): click the first button of the document
\* whose label is in the vocabulary of the action, wait, next iteration
AdvanceStep ==
    /\ UNCHANGED coverVars
    /\ UNCHANGED uploadVars
    /\ pc = "click"
    /\ nav.action \in {"review", "next"}
    /\ UNCHANGED <<mainVars, fieldVars, log_lines, decided, result, raised,
                   log_file,
                   log_writes, steps_run, entry_clicks, dialog_waits,
                   content_checks, close_evals, close_clicks, form_writes,
                   submit_clicks, entry_button, dialog, stalled,
                   write_failed>>
    /\ nav' = NavNone
    /\ buttons' = <<>>
    /\ \/ /\ \E f \in Faults : Raise(f)
          /\ UNCHANGED <<step, nav_clicked, clicked_btn>>
       \/ /\ clicked_btn' = ClickOf[buttons][nav.action]
          /\ nav_clicked' = (nav_clicked \/ clicked_btn' # 0)
          /\ \/ \* wait_for_timeout(1500) raises
                /\ \E f \in Faults : Raise(f)
                /\ UNCHANGED step
             \/ /\ step' = NextStep(step)
                /\ pc' = "loop"
                /\ UNCHANGED <<exc, faults>>

\* variant: running out of steps is reported as a skip
NoSubmitOutcomeSkipped == Skipped

\* return "error:no_submit_reached"
NoSubmitOutcome == ErrorOutcome(NoSubmitReason)

\* after the loop: page.evaluate(_CLOSE_MODAL_JS); return the error
AfterLoop ==
    /\ UNCHANGED coverVars
    /\ UNCHANGED uploadVars
    /\ pc = "after_loop"
    /\ close_evals' = close_evals + 1
    /\ buttons' = <<>>
    /\ UNCHANGED clicked_btn
    /\ UNCHANGED <<mainVars, fieldVars, step, log_lines, nav, result, raised,
                   log_file,
                   log_writes, steps_run, entry_clicks, dialog_waits,
                   content_checks, form_writes, nav_clicked, submit_clicks,
                   entry_button, dialog, stalled, write_failed>>
    /\ \/ /\ \E f \in Faults : Raise(f)
          /\ UNCHANGED <<decided, close_clicks>>
       \/ /\ CloseModal
          /\ Return(NoSubmitOutcome)
          /\ UNCHANGED <<exc, faults>>

\* variant: the close attempt of the except clause is not guarded, so its
\* exception is in flight when the clause is left
HandlerCloseUnguarded ==
    /\ close_evals' = close_evals + 1
    /\ \/ /\ \E f \in Faults : exc' = f
          /\ faults' = faults \cup {"close"}
          /\ UNCHANGED close_clicks
       \/ /\ exc' = NoExc
          /\ CloseModal
          /\ UNCHANGED faults

\* the close attempt of an except clause,
\* try: page.evaluate(_CLOSE_MODAL_JS) except Exception: pass.
\* The exception the clause handles is no longer in flight after it.
HandlerClose ==
    /\ close_evals' = close_evals + 1
    /\ exc' = NoExc
    /\ \/ /\ faults' = faults \cup {"close"}
          /\ UNCHANGED close_clicks
       \/ /\ CloseModal
          /\ UNCHANGED faults

\* variant: the message is not cut
ErrorReasonWhole(msg) == msg

\* the reason of the general error outcome, str(e)[:80]
ErrorReason(msg) == Take(msg, ReasonLimit)

\* variant: a timeout is reported as a skip
TimeoutOutcomeSkipped == Skipped

\* return "error:timeout"
TimeoutOutcome == ErrorOutcome(TimeoutReason)

\* except PWTimeout / except Exception as e
Except ==
    /\ UNCHANGED coverVars
    /\ UNCHANGED uploadVars
    /\ pc = "except"
    /\ UNCHANGED pageVars
    /\ UNCHANGED <<mainVars, fieldVars, step, nav, result, raised, log_file,
                   log_writes, steps_run, entry_clicks, dialog_waits,
                   content_checks, form_writes, nav_clicked, submit_clicks,
                   entry_button, dialog, stalled, write_failed>>
    /\ HandlerClose
    /\ IF exc.kind = "PWTimeout"
       THEN /\ Log(Line("timeout"))
            /\ Return(TimeoutOutcome)
       ELSE /\ Log(ExceptionLine(exc.msg))
            /\ Return(ErrorOutcome(ErrorReason(exc.msg)))

\* what write_text raises
WriteError == [kind |-> "OSError", msg |-> <<"i", "o">>]

\* finally: log_file.write_text("\n".join(log_lines)).  The write is not
\* guarded: if it raises, its exception leaves the function instead of the
\* return value.  An exception still in flight leaves the function after
\* the write.
Finally ==
    /\ UNCHANGED coverVars
    /\ UNCHANGED uploadVars
    /\ pc = "finally"
    /\ pc' = "returned"
    /\ log_writes' = log_writes + 1
    /\ UNCHANGED pageVars
    /\ UNCHANGED <<mainVars, fieldVars, step, log_lines, nav, exc, decided,
                   steps_run,
                   opVars, entry_button, dialog, stalled, faults>>
    /\ \/ /\ log_file' = JoinLines(log_lines)
          /\ write_failed' = FALSE
          /\ IF exc = NoExc
             THEN /\ result' = decided
                  /\ UNCHANGED raised
             ELSE /\ raised' = exc
                  /\ UNCHANGED result
       \/ /\ write_failed' = TRUE
          /\ raised' = WriteError
          /\ UNCHANGED <<log_file, result>>

\* ------------------------------------------- answer_field: operations
\* variant: the operands of in are swapped
RuleMatchesSwapped(i, lower) == IsSubstr(lower, COMMON_ANSWERS[i].key)

\* if key in label_lower
RuleMatches(i, lower) == IsSubstr(COMMON_ANSWERS[i].key, lower)

\* input_el.get_attribute("type") or "text"
InputType(el) == IF el.type = "" THEN "text" ELSE el.type

\* the first option opt with val.lower() in opt_text or opt_text in
\* val.lower(), opt_text being opt.inner_text().lower(); 0 if there is none
OptionFor(options, val) ==
    LET fits(k) == \/ IsSubstr(Lower(val), Lower(options[k]))
                   \/ IsSubstr(Lower(options[k]), Lower(val))
    IN  IF \E k \in 1..Len(options) : fits(k)
        THEN CHOOSE k \in 1..Len(options) :
                fits(k) /\ \A m \in 1..(k - 1) : ~fits(m)
        ELSE 0

\* val.lower() in ("yes", "true", "1")
MeansYes(val) ==
    Lower(val) \in {<<"y", "e", "s">>, <<"t", "r", "u", "e">>, <<"1">>}

\* return from answer_field, to the group loop of apply_to_job
FieldReturn(r) ==
    /\ ret' = r
    /\ fpc' = "radios"

\* a write issued to the control: by rule i (0: the generated answer), of
\* value v, completed or raised
Write(i, v, ok) == writes' = Append(writes, [rule |-> i, val |-> v, ok |-> ok])

\* group.query_selector_all("input[type='radio']"): a radio control is one
\* of the radios of its group
RadiosOf(el) ==
    IF el.tag = "input" /\ el.type = "radio" THEN RadioLists ELSE {<<>>}

\* one form group, up to the loop of answer_field: the label query, the
\* query of the inputs and the call answer_field(page, label_text, inp)
GroupCall(labels, controls) ==
    /\ UNCHANGED coverVars
    /\ file_inputs' = NoFiles
    /\ fpc = "idle"
    /\ pc = "groups"
    /\ calls < MaxCalls
    /\ calls' = calls + 1
    /\ ki' = 1
    /\ ret' = "none"
    /\ writes' = <<>>
    /\ radio_clicks' = <<>>
    /\ UNCHANGED <<mainVars, groupFrame, GEMINI_API_KEY,
                   GEMINI_FORM_CACHE, asked, requests>>
    /\ \/ \* a query of the group raises: except Exception: pass
          /\ label_text' = <<>>
          /\ input_el' = NoControl
          /\ label_lower' = <<>>
          /\ radios' = <<>>
          /\ ExceptPass(QueryFault, pc)
          /\ UNCHANGED fpc
       \/ /\ label_text' \in labels
          /\ input_el' \in controls
          /\ radios' \in RadiosOf(input_el')
          /\ label_lower' = Strip(Lower(label_text'))
          /\ fpc' = "rules"
          /\ NoFault(pc)

\* a form group with any of the controls
FieldCall == GroupCall(Labels, Controls)

\* a form group of a step whose groups hold the cover textarea
FieldCallCover == GroupCall(Labels, CoverControls)

\* the cover textarea after a step of answer_field on control el that
\* left it as el2: a completed write to the control that is the cover
\* textarea is its new content
ResolverWrote(area, el, el2) ==
    IF el.cover /\ el2 # el
    THEN [seen |-> TRUE, value |-> el2.value, resolver |-> TRUE]
    ELSE area

\* the rule the loop for key, val in COMMON_ANSWERS.items() comes to next
\* with if key in label_lower true, from rule i on; past the table if
\* there is none
NextRule(i, lower) ==
    LET matching == {m \in i..Len(COMMON_ANSWERS) : RuleMatches(m, lower)}
    IN  IF matching = {} THEN Len(COMMON_ANSWERS) + 1
        ELSE CHOOSE m \in matching : \A n \in matching : m <= n

\* the loop for key, val in COMMON_ANSWERS.items() up to its next matching
\* rule: the try block of that rule either returns or raises; what it
\* raises is swallowed and the loop goes on with the rule after it; with
\* no matching rule left the loop ends
RuleStep ==
    /\ UNCHANGED cover_letter
    /\ UNCHANGED uploadVars
    /\ fpc = "rules"
    /\ UNCHANGED <<mainVars, groupFrame, label_text, label_lower,
                   radios, radio_clicks, GEMINI_API_KEY, GEMINI_FORM_CACHE,
                   asked, requests, calls>>
    /\ LET k == NextRule(ki, label_lower)
       IN
       IF k > Len(COMMON_ANSWERS)
       THEN /\ fpc' = "gemini"
            /\ ki' = k
            /\ NoFault(pc)
            /\ UNCHANGED <<input_el, ret, writes>>
       ELSE LET val == COMMON_ANSWERS[k].val
                opt == OptionFor(input_el.options, val)
                \* the next rule
                next == /\ ki' = k + 1
                        /\ UNCHANGED <<fpc, ret>>
                \* except Exception: pass
                pass(tags) == next /\ ExceptPass(tags, pc)
                return(r) == /\ FieldReturn(r)
                             /\ NoFault(pc)
                             /\ ki' = k
            IN
            \/ \* a query of the control raises before any write
               /\ pass(QueryFault)
               /\ UNCHANGED <<input_el, writes>>
            \/ \* a tag that is neither select, input nor textarea
               /\ input_el.tag \notin {"select", "input", "textarea"}
               /\ next
               /\ NoFault(pc)
               /\ UNCHANGED <<input_el, writes>>
            \/ \* select_option(value=...) of the first fitting option
               /\ input_el.tag = "select"
               /\ opt # 0
               /\ \/ /\ Actionable(input_el)
                     /\ input_el' = [input_el EXCEPT !.selected = opt]
                     /\ Write(k, input_el.options[opt], TRUE)
                     /\ return("True")
                  \/ /\ Write(k, input_el.options[opt], FALSE)
                     /\ pass(WriteFault)
                     /\ UNCHANGED input_el
            \/ \* select_option(index=1): the second option; it raises
               \* when the select has no second option
               /\ input_el.tag = "select"
               /\ opt = 0
               /\ \/ /\ Actionable(input_el)
                     /\ Len(input_el.options) >= 2
                     /\ input_el' = [input_el EXCEPT !.selected = 2]
                     /\ Write(k, input_el.options[2], TRUE)
                     /\ return("True")
                  \/ /\ Write(k, <<>>, FALSE)
                     /\ pass(WriteFault)
                     /\ UNCHANGED input_el
            \/ \* checkbox: check() if the value means yes and the box is
               \* not checked
               /\ input_el.tag \in {"input", "textarea"}
               /\ InputType(input_el) = "checkbox"
               /\ IF MeansYes(val) /\ ~input_el.checked
                  THEN \/ /\ Actionable(input_el)
                          /\ input_el' = [input_el EXCEPT !.checked = TRUE]
                          /\ Write(k, val, TRUE)
                          /\ return("True")
                       \/ /\ Write(k, val, FALSE)
                          /\ pass(WriteFault)
                          /\ UNCHANGED input_el
                  ELSE /\ return("True")
                       /\ UNCHANGED <<input_el, writes>>
            \/ \* radio: return False, handled by the caller
               /\ input_el.tag \in {"input", "textarea"}
               /\ InputType(input_el) = "radio"
               /\ return("False")
               /\ UNCHANGED <<input_el, writes>>
            \/ \* input_el.fill(val)
               /\ input_el.tag \in {"input", "textarea"}
               /\ InputType(input_el) \notin {"checkbox", "radio"}
               /\ \/ /\ Actionable(input_el)
                     /\ input_el' = [input_el EXCEPT !.value = val]
                     /\ Write(k, val, TRUE)
                     /\ return("True")
                  \/ /\ Write(k, val, FALSE)
                     /\ pass(WriteFault)
                     /\ UNCHANGED input_el
    /\ cover_area' = ResolverWrote(cover_area, input_el, input_el')

\* variant: nothing is stored
CacheStoreNothing(cache, question, answer) == cache

\* if answer: _GEMINI_FORM_CACHE[question] = answer
CacheStore(cache, question, answer) ==
    IF answer.ok /\ answer.text # <<>>
    THEN [q \in DOMAIN cache \cup {question} |->
            IF q = question THEN answer.text ELSE cache[q]]
    ELSE cache

\* variant: the fallback is for every kind of control
OpenEndedAny(el) == TRUE

\* tag == "textarea" or (tag == "input" and input_type in ("text", ""))
OpenEnded(el) ==
    \/ el.tag = "textarea"
    \/ el.tag = "input" /\ InputType(el) = "text"

\* the Gemini fallback after the loop, with _gemini_form_answer and
\* _call_gemini, and return False
GeminiFallback(texts) ==
    /\ UNCHANGED cover_letter
    /\ UNCHANGED uploadVars
    /\ fpc = "gemini"
    /\ UNCHANGED <<mainVars, groupFrame, label_text, label_lower, ki,
                   radios, radio_clicks, GEMINI_API_KEY, calls>>
    /\ LET question == Strip(label_text)
           open == OpenEnded(input_el)
           \* ai_answer is truthy: fill(ai_answer[:2000])
           Fill(text) ==
               LET v == Take(text, AnswerLimit)
               IN  \/ /\ Actionable(input_el)
                      /\ input_el' = [input_el EXCEPT !.value = v]
                      /\ Write(0, v, TRUE)
                      /\ FieldReturn("True")
                      /\ NoFault(pc)
                   \/ /\ Write(0, v, FALSE)
                      /\ FieldReturn("False")
                      /\ ExceptPass(WriteFault, pc)
                      /\ UNCHANGED input_el
       IN
       IF ~(GEMINI_API_KEY /\ Len(question) > 3)
       THEN /\ FieldReturn("False")
            /\ NoFault(pc)
            /\ UNCHANGED <<input_el, writes, GEMINI_FORM_CACHE, asked,
                           requests>>
       ELSE
       \/ \* a query of the control raises
          /\ FieldReturn("False")
          /\ ExceptPass(QueryFault, pc)
          /\ UNCHANGED <<input_el, writes, GEMINI_FORM_CACHE, asked,
                         requests>>
       \/ /\ ~open
          /\ FieldReturn("False")
          /\ NoFault(pc)
          /\ UNCHANGED <<input_el, writes, GEMINI_FORM_CACHE, asked,
                         requests>>
       \/ \* _gemini_form_answer: the question is in the cache
          /\ open
          /\ question \in DOMAIN GEMINI_FORM_CACHE
          /\ asked' = Append(asked, question)
          /\ Fill(GEMINI_FORM_CACHE[question])
          /\ UNCHANGED <<GEMINI_FORM_CACHE, requests>>
       \/ \* _gemini_form_answer: _call_gemini sends a request
          /\ open
          /\ question \notin DOMAIN GEMINI_FORM_CACHE
          /\ asked' = Append(asked, question)
          /\ \E answer \in {NoResponse}
                           \cup {Response(Strip(t)) : t \in texts} :
                /\ requests' = Append(requests,
                                      [question |-> question,
                                       answer |-> answer])
                /\ GEMINI_FORM_CACHE' =
                      CacheStore(GEMINI_FORM_CACHE, question, answer)
                /\ IF answer.ok /\ answer.text # <<>>
                   THEN Fill(answer.text)
                   ELSE /\ FieldReturn("False")
                        /\ NoFault(pc)
                        /\ UNCHANGED <<input_el, writes>>
    /\ cover_area' = ResolverWrote(cover_area, input_el, input_el')

\* the fallback with the short texts of the service
GeminiStep == GeminiFallback(ServiceTexts)

\* the fallback with the longest text of the service
GeminiStepLong == GeminiFallback(LongTexts)

\* the first rule of the table whose key is in the text, 0 if there is none
\* (for key, val in COMMON_ANSWERS.items(): if key in label_lower: ... break)
MatchingRule(lower) ==
    IF \E i \in 1..Len(COMMON_ANSWERS) : RuleMatches(i, lower)
    THEN CHOOSE i \in 1..Len(COMMON_ANSWERS) :
            /\ RuleMatches(i, lower)
            /\ \A m \in 1..(i - 1) : ~RuleMatches(m, lower)
    ELSE 0

\* variant: without a fitting radio the last radio is taken
RadioForLast(rs, val) == Len(rs)

\* the radio that is clicked for a value: the first radio that has a label
\* element whose lower-cased text rl satisfies val.lower() in rl or
\* rl in val.lower(); the for loop's else clause: radios[0]
RadioFor(rs, val) ==
    LET fits(k) == /\ rs[k].labelled
                   /\ \/ IsSubstr(Lower(val), Lower(rs[k].text))
                      \/ IsSubstr(Lower(rs[k].text), Lower(val))
    IN  IF \E k \in 1..Len(rs) : fits(k)
        THEN CHOOSE k \in 1..Len(rs) :
                fits(k) /\ \A m \in 1..(k - 1) : ~fits(m)
        ELSE 1

\* the radio buttons of the group, after answer_field has returned for its
\* inputs: if radios and label_text, one click for the first rule whose key
\* is in label_text.lower(); what raises is swallowed by the except clause
\* of the group
RadioStep ==
    /\ UNCHANGED coverVars
    /\ UNCHANGED uploadVars
    /\ fpc = "radios"
    /\ fpc' = "done"
    /\ UNCHANGED <<mainVars, groupFrame, label_text, input_el,
                   label_lower, ki, ret, writes, radios, GEMINI_API_KEY,
                   GEMINI_FORM_CACHE, asked, requests, calls>>
    /\ LET rule == MatchingRule(Lower(label_text))
       IN  \/ \* the query of the radios raises
              /\ ExceptPass(QueryFault, pc)
              /\ UNCHANGED radio_clicks
           \/ /\ radios = <<>> \/ label_text = <<>> \/ rule = 0
              /\ NoFault(pc)
              /\ UNCHANGED radio_clicks
           \/ /\ radios # <<>> /\ label_text # <<>> /\ rule # 0
              /\ LET r == RadioFor(radios, COMMON_ANSWERS[rule].val)
                     click(ok) ==
                         radio_clicks' =
                            Append(radio_clicks,
                                   [rule |-> rule, radio |-> r, ok |-> ok])
                 IN  \/ \* a query of a radio's label raises
                        /\ ExceptPass(QueryFault, pc)
                        /\ UNCHANGED radio_clicks
                     \/ click(TRUE) /\ NoFault(pc)
                     \/ click(FALSE) /\ ExceptPass(WriteFault, pc)

\* the iteration of for group in form_groups ends: the names of the
\* iteration (label_text, inputs, radios) go on to the next group
GroupDone ==
    /\ UNCHANGED coverVars
    /\ UNCHANGED uploadVars
    /\ fpc = "done"
    /\ fpc' = "idle"
    /\ label_text' = <<>>
    /\ input_el' = NoControl
    /\ label_lower' = <<>>
    /\ ki' = 1
    /\ ret' = "none"
    /\ writes' = <<>>
    /\ radios' = <<>>
    /\ radio_clicks' = <<>>
    /\ UNCHANGED <<mainVars, groupFrame, pc, exc, faults, GEMINI_API_KEY,
                   GEMINI_FORM_CACHE, asked, requests, calls>>

\* the loop over form_groups is done: on to the cover letter
GroupsEnd ==
    /\ UNCHANGED coverVars
    /\ file_inputs' = NoFiles
    /\ fpc = "idle"
    /\ pc = "groups"
    /\ pc' = "cover"
    /\ label_text' = <<>>
    /\ input_el' = NoControl
    /\ label_lower' = <<>>
    /\ ki' = 1
    /\ ret' = "none"
    /\ writes' = <<>>
    /\ radios' = <<>>
    /\ radio_clicks' = <<>>
    /\ UNCHANGED <<mainVars, groupFrame, exc, faults, fpc, GEMINI_API_KEY,
                   GEMINI_FORM_CACHE, asked, requests, calls>>

\* ---------------------------------------------------------------- main
\* if any(url[:60] in k for k in applied_urls)
AlreadyApplied(url, applied) ==
    \E k \in applied : IsSubstr(Take(url, UrlCut), k)

\* variant: the limit is passed by one
MaxReachedLate(count, max) == count > max

\* if applied_count >= args.max: break
MaxReached(count, max) == count >= max

\* variant: an error outcome is not counted
CountedAsNoErrors(r) ==
    CASE r.kind \in {"applied", "dry_run"} -> "applied"
      [] r.kind = "skipped" -> "skipped"
      [] OTHER -> "none"

\* the tally that the if/elif chain on result increments
CountedAs(r) ==
    CASE r.kind \in {"applied", "dry_run"} -> "applied"
      [] r.kind = "skipped" -> "skipped"
      [] OTHER -> "error"

\* variant: no row is added
add_to_tracker_nothing(rows, url) == rows

\* add_to_tracker(job): row_id = len(rows) + 1, append, rewrite the file
add_to_tracker(rows, url) ==
    Append(rows, TrackerRow(Len(rows) + 1, url, "applied"))

\* the head of the role loop, with the region loop around it:
\* if applied_count >= args.max: break, else search_linkedin_jobs
MainRole ==
    /\ UNCHANGED coverVars
    /\ UNCHANGED uploadVars
    /\ UNCHANGED fieldVars
    /\ mpc = "role"
    /\ pc = "idle"
    /\ UNCHANGED <<dry_run, max_arg, regions, n_roles, job, applied_count,
                   skipped_count, error_count, applied_urls, tracker,
                   tracker_writes, attemptVars>>
    /\ IF ri > Len(regions)
       THEN /\ mpc' = "done"
            /\ UNCHANGED <<ri, roi, jobs>>
       ELSE IF \/ regions[ri] = "unknown"
               \/ roi > n_roles
               \/ MaxReached(applied_count, max_arg)
       THEN /\ ri' = ri + 1
            /\ roi' = 1
            /\ UNCHANGED <<mpc, jobs>>
       ELSE \/ \* page.goto of the search raises: nothing catches it
               /\ mpc' = "crashed"
               /\ UNCHANGED <<ri, roi, jobs>>
            \/ /\ jobs' \in JobLists
               /\ mpc' = "job"
               /\ UNCHANGED <<ri, roi>>

\* the head of the job loop, up to the call of apply_to_job
MainJob ==
    /\ UNCHANGED coverVars
    /\ UNCHANGED uploadVars
    /\ UNCHANGED fieldVars
    /\ mpc = "job"
    /\ pc = "idle"
    /\ UNCHANGED <<dry_run, max_arg, regions, n_roles, ri, applied_count,
                   error_count, applied_urls, tracker, tracker_writes>>
    /\ IF jobs = <<>> \/ MaxReached(applied_count, max_arg)
       THEN /\ jobs' = <<>>
            /\ roi' = roi + 1
            /\ mpc' = "role"
            /\ UNCHANGED <<job, skipped_count, attemptVars>>
       ELSE /\ jobs' = Tail(jobs)
            /\ roi' = roi
            /\ IF AlreadyApplied(Head(jobs), applied_urls)
               THEN /\ skipped_count' = skipped_count + 1
                    /\ UNCHANGED <<mpc, job, attemptVars>>
               ELSE /\ job' = Head(jobs)
                    /\ mpc' = "attempt"
                    /\ pc' = "goto"
                    /\ log_lines' = <<HeaderLine(Head(jobs))>>
                    /\ UNCHANGED <<skipped_count, step, nav, exc, decided,
                                   result, raised, log_file, log_writes,
                                   steps_run, opVars, envVars, pageVars>>

\* the attempt's variables after the call
ResetAttempt ==
    /\ pc' = "idle"
    /\ step' = 0
    /\ log_lines' = <<>>
    /\ nav' = NavNone
    /\ buttons' = <<>>
    /\ clicked_btn' = 0
    /\ exc' = NoExc
    /\ decided' = NoOutcome
    /\ result' = NoOutcome
    /\ raised' = NoExc
    /\ log_file' = <<>>
    /\ log_writes' = 0
    /\ steps_run' = 0
    /\ entry_clicks' = 0
    /\ dialog_waits' = 0
    /\ content_checks' = 0
    /\ close_evals' = 0
    /\ close_clicks' = 0
    /\ form_writes' = 0
    /\ nav_clicked' = FALSE
    /\ submit_clicks' = 0
    /\ entry_button' = "unknown"
    /\ dialog' = "closed"
    /\ stalled' = FALSE
    /\ write_failed' = FALSE
    /\ faults' = {}

\* the result tests after the call, and the pacing sleep
MainResult ==
    /\ UNCHANGED coverVars
    /\ UNCHANGED uploadVars
    /\ UNCHANGED fieldVars
    /\ mpc = "attempt"
    /\ pc = "returned"
    /\ ResetAttempt
    /\ UNCHANGED <<dry_run, max_arg, regions, n_roles, ri, roi, jobs>>
    /\ job' = <<>>
    /\ IF raised # NoExc
       THEN \* nothing in main catches an exception of apply_to_job
            /\ mpc' = "crashed"
            /\ UNCHANGED <<applied_count, skipped_count, error_count,
                           applied_urls, tracker, tracker_writes>>
       ELSE /\ mpc' = "job"
            /\ IF result.kind = "applied"
               THEN /\ tracker' = add_to_tracker(tracker, job)
                    /\ tracker_writes' = tracker_writes + 1
                    /\ applied_urls' = applied_urls \cup {Take(job, UrlCut)}
               ELSE UNCHANGED <<applied_urls, tracker, tracker_writes>>
            /\ LET add(tally) == IF CountedAs(result) = tally THEN 1 ELSE 0
               IN  /\ applied_count' = applied_count + add("applied")
                   /\ skipped_count' = skipped_count + add("skipped")
                   /\ error_count' = error_count + add("error")

Next ==
    \/ MainRole
    \/ MainJob
    \/ MainResult
    \/ Goto
    \/ EntryDetect
    \/ DryRunCheck
    \/ ModalOpening
    \/ FormContentCheck
    \/ LoopHead
    \/ StepUpload
    \/ StepGroups
    \/ StepCover
    \/ StepNav
    \/ SubmitStep
    \/ AdvanceStep
    \/ AfterLoop
    \/ Except
    \/ Finally

Spec == Init /\ [][Next]_vars

\* One call of apply_to_job: the first call of a run that started with an
\* empty tracker, for any job and either mode.
AttemptInit ==
    /\ mpc = "attempt"
    /\ dry_run \in BOOLEAN
    /\ max_arg = 1
    /\ regions = <<"known">>
    /\ n_roles = 1
    /\ ri = 1
    /\ roi = 1
    /\ jobs = <<>>
    /\ job \in Urls
    /\ applied_count = 0
    /\ skipped_count = 0
    /\ error_count = 0
    /\ tracker = <<>>
    /\ applied_urls = {}
    /\ tracker_writes = 0
    /\ pc = "goto"
    /\ step = 0
    /\ log_lines = <<HeaderLine(job)>>
    /\ nav = NavNone
    /\ buttons = <<>>
    /\ clicked_btn = 0
    /\ file_inputs = NoFiles
    /\ cover_area = NoArea
    /\ cover_letter = NoLetter
    /\ exc = NoExc
    /\ decided = NoOutcome
    /\ result = NoOutcome
    /\ raised = NoExc
    /\ log_file = <<>>
    /\ log_writes = 0
    /\ steps_run = 0
    /\ entry_clicks = 0
    /\ dialog_waits = 0
    /\ content_checks = 0
    /\ close_evals = 0
    /\ close_clicks = 0
    /\ form_writes = 0
    /\ nav_clicked = FALSE
    /\ submit_clicks = 0
    /\ entry_button = "unknown"
    /\ dialog = "closed"
    /\ stalled = FALSE
    /\ write_failed = FALSE
    /\ faults = {}
    /\ GEMINI_API_KEY = FALSE
    /\ FieldIdle

AttemptNext ==
    \/ Goto
    \/ EntryDetect
    \/ DryRunCheck
    \/ ModalOpening
    \/ FormContentCheck
    \/ LoopHead
    \/ StepUpload
    \/ StepGroups
    \/ StepCover
    \/ StepNav
    \/ SubmitStep
    \/ AdvanceStep
    \/ AfterLoop
    \/ Except
    \/ Finally

AttemptSpec == AttemptInit /\ [][AttemptNext]_vars

\* every browser wait returns or times out, so a step of the attempt that
\* can be taken is taken
AttemptFairSpec == AttemptSpec /\ WF_vars(AttemptNext)

\* Calls of answer_field in one run, for any labels and controls, with or
\* without a configured key: the calls the group loop of a form step makes.
FieldInit ==
    /\ mpc = "attempt"
    /\ dry_run = FALSE
    /\ max_arg = 1
    /\ regions = <<"known">>
    /\ n_roles = 1
    /\ ri = 1
    /\ roi = 1
    /\ jobs = <<>>
    /\ job = Url3
    /\ applied_count = 0
    /\ skipped_count = 0
    /\ error_count = 0
    /\ tracker = <<>>
    /\ applied_urls = {}
    /\ tracker_writes = 0
    /\ pc = "upload"
    /\ FreshAttempt
    /\ GEMINI_API_KEY \in BOOLEAN
    /\ FieldIdle

FieldNext ==
    \/ StepUpload
    \/ FieldCall
    \/ RuleStep
    \/ GeminiStep
    \/ RadioStep
    \/ GroupDone
    \/ GroupsEnd
    \/ StepCover

FieldSpec == FieldInit /\ [][FieldNext]_vars

\* The navigation detection of one form step, on every document: the first
\* step of an attempt whose fill phase has completed.
NavInit ==
    /\ mpc = "attempt"
    /\ dry_run = FALSE
    /\ max_arg = 1
    /\ regions = <<"known">>
    /\ n_roles = 1
    /\ ri = 1
    /\ roi = 1
    /\ jobs = <<>>
    /\ job = Url3
    /\ applied_count = 0
    /\ skipped_count = 0
    /\ error_count = 0
    /\ tracker = <<>>
    /\ applied_urls = {}
    /\ tracker_writes = 0
    /\ pc = "nav"
    /\ FreshAttempt
    /\ GEMINI_API_KEY \in BOOLEAN
    /\ FieldIdle

NavNext == StepNavAny

NavSpec == NavInit /\ [][NavNext]_vars

\* The form groups and the cover letter of one form step that has no file
\* input, a cover textarea among its controls, and the longest texts: the
\* generative service returns its longest text and the cover-letter file
\* is the longest file.
TextInit ==
    /\ mpc = "attempt"
    /\ dry_run = FALSE
    /\ max_arg = 1
    /\ regions = <<"known">>
    /\ n_roles = 1
    /\ ri = 1
    /\ roi = 1
    /\ jobs = <<>>
    /\ job = Url3
    /\ applied_count = 0
    /\ skipped_count = 0
    /\ error_count = 0
    /\ tracker = <<>>
    /\ applied_urls = {}
    /\ tracker_writes = 0
    /\ pc = "groups"
    /\ FreshAttempt
    /\ GEMINI_API_KEY \in BOOLEAN
    /\ FieldIdle

TextNext ==
    \/ FieldCallCover
    \/ RuleStep
    \/ GeminiStepLong
    \/ RadioStep
    \/ GroupDone
    \/ GroupsEnd
    \/ StepCoverLong

TextSpec == TextInit /\ [][TextNext]_vars

\* ------------------------------------------------------- tracker.csv
\* The three programs read and rewrite the same tracker.csv. Between runs
\* of the driver, the tracker changes by a search_jobs save, by the two
\* apply.py commands and by the row an applied attempt appends.
MaxRows == 4
MaxLeads == 2

\* the jobs a search_jobs run collects: title and company, and the url of
\* the job board; the boards are not LinkedIn, but a job can carry the title
\* and company of a LinkedIn posting
Lead(key, url) == [key |-> key, url |-> url]
Leads == {Lead("a", <<"s", "a">>), Lead("c", <<"s", "c">>)}

\* dedup(all_jobs): the first job of every (title, company) is kept
LeadLists ==
    {s \in SeqsOver(Leads, MaxLeads) :
        \A i, j \in 1..Len(s) : i # j => s[i].key # s[j].key}

\* existing[key] = row: a new key is added after the others, a key that is
\* already there keeps its place and takes the new row
DictPut(d, row) ==
    IF \E i \in 1..Len(d) : d[i].key = row.key
    THEN [i \in 1..Len(d) |-> IF d[i].key = row.key THEN row ELSE d[i]]
    ELSE Append(d, row)

RECURSIVE DictOf(_, _)
DictOf(rows, d) ==
    IF rows = <<>> THEN d ELSE DictOf(Tail(rows), DictPut(d, Head(rows)))

\* search_jobs.load_tracker: the rows keyed by (title, company), as
\* list(existing.values()) lists them
load_tracker(rows) == DictOf(rows, <<>>)

\* the loop of search_jobs.save_tracker: a job whose key no row has is
\* appended with row_id = len(all_rows) + 1 and status found
RECURSIVE MergeLeads(_, _)
MergeLeads(leads, all_rows) ==
    IF leads = <<>>
    THEN all_rows
    ELSE LET j == Head(leads)
         IN  IF \E i \in 1..Len(all_rows) : all_rows[i].key = j.key
             THEN MergeLeads(Tail(leads), all_rows)
             ELSE MergeLeads(Tail(leads),
                             Append(all_rows, Row(Len(all_rows) + 1, j.key,
                                                  j.url, "found")))

\* search_jobs.save_tracker(jobs, existing): the file is rewritten with
\* the values of existing followed by the new rows
save_tracker(leads, existing) == MergeLeads(leads, existing)

\* --id and --mark-applied absent
NoId == 0

\* for r in rows: if r["id"] == id: ...; break
FirstWithId(rows, id) ==
    {i \in 1..Len(rows) :
        /\ rows[i].id = id
        /\ \A m \in 1..(i - 1) : rows[m].id # id}

\* apply.cmd_generate(rows, job_id): the targets are the rows found, or
\* with --id the rows of that id whatever their status; for each target
\* the first row of its id becomes cover_ready
cmd_generate(rows, job_id) ==
    LET targets == IF job_id = NoId
                   THEN {i \in 1..Len(rows) : rows[i].status = "found"}
                   ELSE {i \in 1..Len(rows) : rows[i].id = job_id}
        marked == UNION {FirstWithId(rows, rows[i].id) : i \in targets}
    IN  [i \in 1..Len(rows) |->
            IF i \in marked
            THEN [rows[i] EXCEPT !.status = "cover_ready"]
            ELSE rows[i]]

\* apply.cmd_mark_applied(rows, job_id): the first row of that id becomes
\* applied
cmd_mark_applied(rows, job_id) ==
    [i \in 1..Len(rows) |->
        IF i \in FirstWithId(rows, job_id)
        THEN [rows[i] EXCEPT !.status = "applied"]
        ELSE rows[i]]

\* nothing but tracker.csv changes between runs of the driver
TrackerFrame ==
    UNCHANGED <<mpc, dry_run, max_arg, regions, n_roles, ri, roi, jobs, job,
                applied_count, skipped_count, error_count, applied_urls,
                tracker_writes, attemptVars, fieldVars>>

\* a run of search_jobs: load_tracker, then save_tracker
SearchSave ==
    /\ mpc = "done"
    /\ \E leads \in LeadLists :
          /\ tracker' = save_tracker(leads, load_tracker(tracker))
          /\ Len(tracker') <= MaxRows
    /\ TrackerFrame

\* apply.py without --mark-applied: cover letters for the rows found, or
\* for the rows of one id
Generate ==
    /\ mpc = "done"
    /\ \E job_id \in {NoId} \cup 1..MaxRows :
          tracker' = cmd_generate(tracker, job_id)
    /\ TrackerFrame

\* apply.py --mark-applied ID
MarkApplied ==
    /\ mpc = "done"
    /\ \E job_id \in 1..MaxRows :
          tracker' = cmd_mark_applied(tracker, job_id)
    /\ TrackerFrame

\* a run of the driver in which one attempt returns applied: the job is
\* one that the applied urls of the tracker do not cover
AppliedAttempt ==
    /\ mpc = "done"
    /\ Len(tracker) < MaxRows
    /\ \E url \in Urls :
          /\ ~AlreadyApplied(url, AppliedUrlsOf(tracker))
          /\ tracker' = add_to_tracker(tracker, url)
    /\ TrackerFrame

\* the tracker from its creation on: no file, no run in progress
TrackerInit ==
    /\ mpc = "done"
    /\ dry_run = FALSE
    /\ max_arg = 1
    /\ regions = <<"known">>
    /\ n_roles = 1
    /\ ri = 1
    /\ roi = 1
    /\ jobs = <<>>
    /\ job = <<>>
    /\ applied_count = 0
    /\ skipped_count = 0
    /\ error_count = 0
    /\ tracker = <<>>
    /\ applied_urls = {}
    /\ tracker_writes = 0
    /\ pc = "idle"
    /\ FreshAttempt
    /\ GEMINI_API_KEY = FALSE
    /\ FieldIdle

TrackerNext ==
    \/ SearchSave
    \/ Generate
    \/ MarkApplied
    \/ AppliedAttempt

TrackerSpec == TrackerInit /\ [][TrackerNext]_vars

\* ------------------------------------------------------------- claims
\* apply_to_job has returned a value to main
ReturnedValue == pc = "returned" /\ raised = NoExc

ErrNoSubmit == ErrorOutcome(NoSubmitReason)

\* C1: whenever apply_to_job returns, the value is exactly one of
\* "applied", "skipped", "dry_run" or "error:" with a reason of at most 80
\* characters; no value exists before the return or when an exception left.
OutcomeIsClosed ==
    /\ ReturnedValue =>
         \/ result \in {Applied, Skipped, DryRun}
         \/ /\ result.kind = "error"
            /\ Len(result.reason) <= 80
    /\ ~ReturnedValue => result = NoOutcome

\* C1 witness: an error outcome whose reason was cut to 80 characters
OutcomeIsClosedWitness ==
    /\ ReturnedValue
    /\ result.kind = "error"
    /\ Len(result.reason) = 80
    /\ "boundary" \in faults

\* C2: no exception of a browser operation leaves apply_to_job, wherever it
\* was raised, the close attempt of an except clause included; unless the
\* log write fails, an attempt with such an exception returns an error
\* outcome.
BrowserFaultsContained ==
    pc = "returned" =>
        /\ raised.kind \notin {"PWTimeout", "Error"}
        /\ (faults \cap {"boundary", "close"} # {} /\ ~write_failed) =>
              (raised = NoExc /\ result.kind = "error")

\* C2 witness: an operation raised, the close attempt of the except clause
\* raised too, and a value was returned
BrowserFaultsContainedWitness ==
    /\ ReturnedValue
    /\ faults = {"boundary", "close"}

\* C3: exactly one log write per call, at the end and after the outcome is
\* decided; the file holds every line of log_lines, in order, starting
\* with the header of the job.
LogLinesIn(text) ==
    /\ Len(text) = 2 * Len(log_lines) - 1
    /\ \A i \in 1..Len(log_lines) : text[2 * i - 1] = log_lines[i]
    /\ \A i \in 1..(Len(log_lines) - 1) : text[2 * i] = NewLine

OneLogWrite ==
    /\ pc # "returned" => log_writes = 0
    /\ pc = "returned" => (log_writes = 1 /\ decided # NoOutcome)
    /\ (pc = "returned" /\ ~write_failed) =>
          /\ Len(log_lines) >= 1
          /\ log_lines[1] = HeaderLine(job)
          /\ LogLinesIn(log_file)

\* C3 witness: a submitted application and its log of at least five lines
OneLogWriteWitness ==
    /\ ReturnedValue
    /\ result = Applied
    /\ Len(log_lines) >= 5
    /\ log_file # <<>>

\* C4 (as claimed): a failing log write neither raises out of apply_to_job
\* nor changes the outcome the caller receives.
LogWriteFailureHarmless ==
    (pc = "returned" /\ write_failed) =>
        (raised = NoExc /\ result = decided)

\* C5: the step index starts at 0, grows by one per iteration and never
\* passes 10, at most 10 iterations are started, and every attempt that is
\* started reaches its return with an outcome decided.
StepIndexBoundedAndTerminates ==
    /\ [](/\ step \in 0..MaxSteps
          /\ steps_run <= 10
          /\ pc \in {"upload", "groups", "cover", "nav", "click"} =>
                steps_run = step + 1)
    /\ [][step' = step \/ step' = step + 1]_vars
    /\ (pc = "goto") ~> (pc = "returned" /\ decided # NoOutcome)

\* C5 witness: the loop has run out after ten iterations
StepIndexBoundedWitness ==
    /\ pc = "after_loop"
    /\ step = 10
    /\ steps_run = 10
    /\ ~stalled

\* the form-step loop was entered, no exception was raised, no step showed
\* a submit button, and a value was returned
NoSubmitNoFault ==
    /\ ReturnedValue
    /\ faults = {}
    /\ steps_run >= 1
    /\ nav.action # "submit"

\* C6 (as claimed): without a submit button and without a fault the loop
\* runs exactly 10 iterations and returns error:no_submit_reached.
NoSubmitRunsAllSteps ==
    NoSubmitNoFault => (steps_run = 10 /\ result = ErrNoSubmit)

\* C6 (amended): without a submit button and without a fault the attempt
\* returns error:no_submit_reached, after exactly 10 iterations if every
\* step showed a button to advance, and otherwise in the first step that
\* showed no actionable button; never after more than 10.
NoSubmitStopsAtStallOrCap ==
    NoSubmitNoFault =>
        /\ result = ErrNoSubmit
        /\ steps_run <= 10
        /\ IF stalled THEN steps_run = step + 1 ELSE steps_run = 10

\* C6 witness: ten iterations, each advanced, then the error
NoSubmitWitness ==
    /\ NoSubmitNoFault
    /\ ~stalled
    /\ steps_run = 10
    /\ result = ErrNoSubmit

\* dry-run attempt, entry button found, dialog with form content, no
\* exception, value returned
DryRunValidDialog ==
    /\ ReturnedValue
    /\ dry_run
    /\ entry_button = "present"
    /\ dialog = "form"
    /\ faults = {}

\* C7 (as claimed): such an attempt returns "dry_run" with no field write
\* and no click but the one on the entry button.
DryRunOnlyClicksEntry ==
    DryRunValidDialog =>
        /\ result = DryRun
        /\ form_writes = 0
        /\ entry_clicks = 1
        /\ close_clicks = 0
        /\ ~nav_clicked
        /\ submit_clicks = 0

\* C7 (amended): such an attempt returns "dry_run" with no field write and
\* no click but the one on the entry button and at most one click on a
\* dismiss/close/discard button, issued by the one run of the close script.
DryRunClicksEntryAndDismiss ==
    DryRunValidDialog =>
        /\ result = DryRun
        /\ form_writes = 0
        /\ entry_clicks = 1
        /\ close_evals = 1
        /\ close_clicks <= 1
        /\ ~nav_clicked
        /\ submit_clicks = 0

\* C7 witness: the dry run clicked a dismiss button
DryRunDismissWitness ==
    /\ DryRunValidDialog
    /\ result = DryRun
    /\ close_clicks = 1

\* C8 (as claimed): "dry_run" is returned only after the dialog was waited
\* for and checked, and a dry run whose dialog is missing or has no form
\* content returns "skipped".
DryRunAfterFormCheck ==
    /\ (ReturnedValue /\ result = DryRun) =>
          (dialog = "form" /\ dialog_waits = 1 /\ content_checks = 1)
    /\ (ReturnedValue /\ dry_run /\ entry_button = "present"
          /\ dialog \in {"none", "empty"} /\ faults = {}) =>
          result = Skipped

\* C8 (amended): "dry_run" is returned only in dry-run mode, after the
\* entry button was found and clicked, and before the dialog is waited for
\* or checked; a dry run with an entry button returns "dry_run" whether or
\* not the dialog appears or has form content.
DryRunAfterEntryClick ==
    /\ (ReturnedValue /\ result = DryRun) =>
          /\ dry_run
          /\ entry_button = "present"
          /\ entry_clicks = 1
          /\ dialog_waits = 0
          /\ content_checks = 0
          /\ steps_run = 0
    /\ (ReturnedValue /\ dry_run /\ entry_button = "present"
          /\ faults = {}) =>
          result = DryRun

\* C8 witness: "dry_run" although the dialog never appeared
DryRunNoDialogWitness ==
    /\ ReturnedValue
    /\ result = DryRun
    /\ dialog = "none"

\* C9: in a dry run no submit button is found or clicked, no attempt
\* decides or returns "applied", and the tracker is never written.
DryRunNeverApplies ==
    dry_run =>
        /\ submit_clicks = 0
        /\ decided # Applied
        /\ result # Applied
        /\ tracker_writes = 0
        /\ tracker \in InitTrackers

\* C9 witness: a finished dry run with a counted dry-run attempt and
\* another attempt
DryRunNeverAppliesWitness ==
    /\ dry_run
    /\ mpc = "done"
    /\ applied_count = 1
    /\ skipped_count + error_count >= 1

\* C10: when neither search finds an entry button the attempt decides
\* "skipped" with no click, no dialog wait, no form-content check, no form
\* step, no write and no run of the close script, and returns it.
NoEntrySkips ==
    entry_button = "absent" =>
        /\ pc \in {"finally", "returned"}
        /\ decided = Skipped
        /\ ReturnedValue => result = Skipped
        /\ entry_clicks = 0
        /\ close_evals = 0
        /\ close_clicks = 0
        /\ ~nav_clicked
        /\ submit_clicks = 0
        /\ dialog_waits = 0
        /\ content_checks = 0
        /\ steps_run = 0
        /\ form_writes = 0

\* C10 witness: "skipped" returned for a page without entry button
NoEntrySkipsWitness ==
    /\ ReturnedValue
    /\ entry_button = "absent"
    /\ result = Skipped

\* the entry button was clicked in a live run and no operation raised
LiveEntryClicked ==
    /\ ~dry_run
    /\ entry_button = "present"
    /\ faults = {}

\* C11: in a live run, after the click on the entry button, a dialog wait
\* that times out returns "skipped" and not an error, and a dialog without
\* form content returns "skipped"; in both cases no form step is started,
\* no field is written and nothing is submitted.
LiveSkipsWithoutForm ==
    /\ (LiveEntryClicked /\ dialog \in {"none", "empty"}) =>
          /\ steps_run = 0
          /\ form_writes = 0
          /\ ~nav_clicked
          /\ submit_clicks = 0
    /\ (ReturnedValue /\ LiveEntryClicked /\ dialog = "none") =>
          /\ result = Skipped
          /\ dialog_waits = 1
          /\ content_checks = 0
    /\ (ReturnedValue /\ LiveEntryClicked /\ dialog = "empty") =>
          /\ result = Skipped
          /\ dialog_waits = 1
          /\ content_checks = 1

\* C11 witness: the dialog wait of a live run timed out and "skipped" was
\* returned
LiveSkipsWitness ==
    /\ ReturnedValue
    /\ LiveEntryClicked
    /\ dialog = "none"
    /\ dialog_waits = 1
    /\ result = Skipped

\* the "Step n" lines of the log, in the order of the log
StepLines == SelectSeq(log_lines, LAMBDA l : l.line = "step")

\* C12: an attempt that returns from a step showing a submit button, after
\* n - 1 steps that each showed a review or next button, has run exactly n
\* iterations (n in 1..10), clicked submit once, returns "applied", and
\* its log holds "Step 1" .. "Step n" in order and ends with the line
\* noting the submission.
SubmitAtStepN ==
    (ReturnedValue /\ nav.action = "submit"
       /\ faults \cap {"boundary", "close"} = {}) =>
        /\ result = Applied
        /\ steps_run \in 1..10
        /\ steps_run = step + 1
        /\ submit_clicks = 1
        /\ StepLines = [i \in 1..steps_run |-> StepLine(i)]
        /\ log_lines[Len(log_lines)] = Line("submitted")
        /\ LogLinesIn(log_file)

\* C12 witness: submit in the tenth step, after nine advances
SubmitAtStepNWitness ==
    /\ ReturnedValue
    /\ result = Applied
    /\ steps_run = 10
    /\ nav_clicked
    /\ faults = {}

\* C13: when a step shows no actionable button the loop stops in that
\* step: no later step is started and no further field is written, the
\* close script is run, and unless an operation raises the attempt returns
\* error:no_submit_reached.
StallStopsLoop ==
    /\ [](stalled =>
            /\ pc \in {"after_loop", "except", "finally", "returned"}
            /\ nav.action = "none"
            /\ steps_run = step + 1
            /\ pc \in {"finally", "returned"} => close_evals >= 1
            /\ (ReturnedValue /\ faults \cap {"boundary", "close"} = {}) =>
                  result = ErrNoSubmit)
    /\ [][stalled =>
            /\ steps_run' = steps_run
            /\ form_writes' = form_writes
            /\ submit_clicks' = submit_clicks
            /\ nav_clicked' = nav_clicked]_vars

\* C13 witness: the third step showed no button, after a field was written
StallStopsLoopWitness ==
    /\ ReturnedValue
    /\ stalled
    /\ steps_run = 3
    /\ form_writes >= 1
    /\ close_evals = 1
    /\ result = ErrNoSubmit

\* C14 (as claimed): every fault raised inside the form-step loop, the
\* faults of uploads, control writes, radio clicks and cover-letter fills
\* included, ends the attempt with an error outcome for that fault.
LoopFaultsEndAttempt ==
    (ReturnedValue /\ steps_run >= 1 /\ faults # {}) =>
        /\ result.kind = "error"
        /\ result # ErrNoSubmit

\* C14 (amended): a fault that reaches the except clauses from inside the
\* loop ends the attempt with error:timeout if it is a timeout and with
\* error: and the first 80 characters of its message otherwise; a fault of
\* an upload, a control write, a radio click or a cover-letter fill is
\* swallowed inside the step and does not end the attempt.
LoopFaultsCaughtOrSwallowed ==
    /\ [][(pc = "except" /\ steps_run >= 1) =>
            decided' = IF exc.kind = "PWTimeout"
                       THEN ErrorOutcome(TimeoutReason)
                       ELSE ErrorOutcome(Take(exc.msg, 80))]_vars
    /\ []((ReturnedValue /\ steps_run >= 1 /\ "boundary" \in faults) =>
            /\ result = decided
            /\ result.kind = "error"
            /\ result # ErrNoSubmit)
    /\ []((ReturnedValue /\ "swallowed" \in faults
                /\ faults \subseteq WriteFault) =>
            result \in {Applied, ErrNoSubmit})
    /\ []("swallowed" \in faults => steps_run >= 1)

\* C14 witness: a write fault was swallowed in one step and a timeout ended
\* the attempt in a later step
LoopFaultsWitness ==
    /\ ReturnedValue
    /\ steps_run >= 2
    /\ "swallowed" \in faults
    /\ "boundary" \in faults
    /\ result = ErrorOutcome(TimeoutReason)

\* C15 (as claimed): every return that follows the click on the entry
\* button is preceded by a run of the close script.
CloseAttemptOnEveryExit ==
    (pc = "returned" /\ entry_clicks >= 1) => close_evals >= 1

\* the earliest rule of the table whose key is in the label
FirstMatch(lower) ==
    CHOOSE i \in 1..Len(COMMON_ANSWERS) :
        /\ RuleMatches(i, lower)
        /\ \A m \in 1..(i - 1) : ~RuleMatches(m, lower)

\* C16 (as claimed): every value that answer_field applies to a control by
\* a rule is the value of the earliest rule whose key is in the label, also
\* after a write that failed.
FirstRuleValueApplied ==
    \A k \in 1..Len(writes) :
        (writes[k].rule # 0 /\ writes[k].ok) =>
            writes[k].rule = FirstMatch(label_lower)

\* the answer is stored by if answer:
Truthy(answer) == answer.ok /\ answer.text # <<>>

\* C17 (as claimed): no question is sent to the generative service twice
\* in one run, whatever the first request returned.
NoSecondRequest ==
    \A i, j \in 1..Len(requests) :
        i # j => requests[i].question # requests[j].question

\* C17 (amended): a question whose request returned a non-empty answer is
\* never sent again, and later calls with it are answered from the cache
\* with that answer; a question is sent again only after requests that
\* failed or returned an empty text; without a key nothing is sent.
NoRequestAfterAnswer ==
    /\ \A i, j \in 1..Len(requests) :
          (i < j /\ requests[i].question = requests[j].question) =>
              ~Truthy(requests[i].answer)
    /\ \A q \in DOMAIN GEMINI_FORM_CACHE :
          \E i \in 1..Len(requests) :
              /\ requests[i].question = q
              /\ Truthy(requests[i].answer)
              /\ GEMINI_FORM_CACHE[q] = requests[i].answer.text
    /\ \A i \in 1..Len(requests) :
          Truthy(requests[i].answer) =>
              requests[i].question \in DOMAIN GEMINI_FORM_CACHE
    /\ Len(requests) <= Len(asked)
    /\ ~GEMINI_API_KEY => (requests = <<>> /\ asked = <<>>)

\* C17 witness: the same question was asked in two calls, one request was
\* sent, and the second call filled the control with the cached answer
NoRequestAfterAnswerWitness ==
    /\ fpc = "done"
    /\ Len(asked) = 2
    /\ asked[1] = asked[2]
    /\ Len(requests) = 1
    /\ Truthy(requests[1].answer)
    /\ ret = "True"
    /\ writes = <<[rule |-> 0, val |-> requests[1].answer.text,
                   ok |-> TRUE]>>

\* main has received the value of an attempt
OutcomeReceived == mpc = "attempt" /\ pc = "returned" /\ raised = NoExc

\* a step of main that goes on with the job loop and adds one to the tally
\* of the received value and nothing to the others
CountsOnce ==
    /\ mpc' = "job"
    /\ jobs' = jobs
    /\ applied_count' + skipped_count' + error_count' =
          applied_count + skipped_count + error_count + 1
    /\ applied_count' = applied_count +
          (IF result \in {Applied, DryRun} THEN 1 ELSE 0)
    /\ skipped_count' = skipped_count +
          (IF result = Skipped THEN 1 ELSE 0)
    /\ error_count' = error_count +
          (IF result.kind = "error" THEN 1 ELSE 0)

\* C18: after every attempt that returned a value, whatever the value,
\* the driver goes on with the job loop and exactly one tally grows, by
\* one: applied for "applied" and "dry_run", skipped for "skipped", errors
\* for every error.
ContinuesAndCountsOnce ==
    OutcomeReceived =>
        /\ ENABLED Next
        /\ ~ENABLED (Next /\ ~CountsOnce)

\* C18 witness: the run went on after an error and then applied
ContinuesAfterErrorWitness ==
    /\ mpc = "done"
    /\ error_count = 1
    /\ applied_count = 1
    /\ tracker_writes = 1

\* a step of main that calls search_linkedin_jobs or apply_to_job
StartsSearchOrAttempt ==
    \/ mpc = "role" /\ mpc' \in {"job", "crashed"}
    \/ mpc = "job" /\ mpc' = "attempt"
    \/ jobs' \notin {jobs, <<>>}

RowIffApplied ==
    IF OutcomeReceived /\ result = Applied
    THEN /\ tracker' =
              Append(tracker, TrackerRow(Len(tracker) + 1, job, "applied"))
         /\ tracker_writes' = tracker_writes + 1
    ELSE /\ tracker' = tracker
         /\ tracker_writes' = tracker_writes

\* C20: the tracker changes only when main receives "applied", and then by
\* exactly one appended row for the job with status applied; in a live run
\* the rows added equal the applied outcomes counted, in a dry run none is
\* added.
TrackerRowPerApplied ==
    /\ ~ENABLED (Next /\ ~RowIffApplied)
    /\ tracker_writes = IF dry_run THEN 0 ELSE applied_count

\* C20 witness: a run with one applied attempt and one other attempt, and
\* one row added to a tracker that had a row
TrackerRowPerAppliedWitness ==
    /\ mpc = "done"
    /\ tracker_writes = 1
    /\ Len(tracker) = 2
    /\ tracker[2].url = Url1
    /\ skipped_count + error_count = 1

\* the buttons of the document that are visible and enabled and whose
\* aria-label or text is, or starts with, a label of the vocabulary
Shows(labels) ==
    {i \in 1..Len(buttons) :
        /\ buttons[i].shown
        /\ ~buttons[i].disabled
        /\ MatchesLabels(buttons[i], labels)}

\* the buttons the fallback rule may take
FallbackCandidates ==
    {i \in 1..Len(buttons) :
        /\ buttons[i].area
        /\ buttons[i].shown
        /\ ~buttons[i].disabled
        /\ Txt(buttons[i]) # <<>>
        /\ \A k \in 1..Len(SKIP_LABELS) :
              /\ ~IsSubstr(SKIP_LABELS[k], Al(buttons[i]))
              /\ Txt(buttons[i]) # SKIP_LABELS[k]}

LabelsOf(S) == {ButtonLabel(buttons[i]) : i \in S}

\* C21: the navigation action of a step is chosen by strict priority over
\* the visible, enabled buttons: submit if one matches the submit
\* vocabulary, else review, else next, else (fallback) next for the first
\* visible enabled button with text in the action area that has no skip
\* label, else none; the label returned is the label of such a button, so
\* a disabled or zero-size button is never the one chosen.
NavByStrictPriority ==
    pc \in {"click", "after_loop"} =>
        LET submit == Shows(SUBMIT_LABELS)
            review == Shows(REVIEW_LABELS)
            next == Shows(NEXT_LABELS)
            other == FallbackCandidates
        IN  /\ nav.action = "submit" <=> submit # {}
            /\ nav.action = "review" <=> submit = {} /\ review # {}
            /\ nav.action = "next" /\ ~nav.fallback <=>
                  submit = {} /\ review = {} /\ next # {}
            /\ nav.action = "next" /\ nav.fallback <=>
                  submit = {} /\ review = {} /\ next = {} /\ other # {}
            /\ nav.action = "none" <=>
                  submit = {} /\ review = {} /\ next = {} /\ other = {}
            /\ nav.action = "submit" => nav.label \in LabelsOf(submit)
            /\ nav.action = "review" => nav.label \in LabelsOf(review)
            /\ nav.action = "next" /\ ~nav.fallback =>
                  nav.label \in LabelsOf(next)
            /\ nav.action = "next" /\ nav.fallback =>
                  \E i \in other :
                      /\ \A m \in other : i <= m
                      /\ nav.label = ButtonLabel(buttons[i])

\* a step that shows a next button and, after it, a submit button is
\* classified submit
NavByStrictPriorityWitness ==
    /\ pc = "click"
    /\ Len(buttons) = 2
    /\ 1 \in Shows(NEXT_LABELS)
    /\ 2 \in Shows(SUBMIT_LABELS)
    /\ nav.action = "submit"

\* C22: 'applied' is returned only in a step that navigation detection
\* classified as submit, after exactly one submit click and then the
\* dismiss attempt; from the classification on, the attempt issues no
\* field write and no review/next click.
AppliedOnlyAfterSubmit ==
    /\ [](ReturnedValue /\ result = Applied =>
            /\ nav.action = "submit"
            /\ steps_run = step + 1
            /\ submit_clicks = 1
            /\ clicked_btn # 0
            /\ close_evals = 1
            /\ log_lines[Len(log_lines)] = Line("submitted"))
    /\ [][nav.action = "submit" =>
            /\ form_writes' = form_writes
            /\ nav_clicked' = nav_clicked
            /\ nav' = nav]_vars

\* applied in the second step, after a field write and a next click
AppliedOnlyAfterSubmitWitness ==
    /\ ReturnedValue
    /\ result = Applied
    /\ steps_run = 2
    /\ form_writes > 0
    /\ nav_clicked

First(S) == CHOOSE i \in S : \A m \in S : i <= m

\* the position of the button that detection selected for a review or
\* next action
DetectedBtn ==
    IF nav.action = "review" THEN First(Shows(REVIEW_LABELS))
    ELSE IF ~nav.fallback THEN First(Shows(NEXT_LABELS))
    ELSE First(FallbackCandidates)

\* C23: when the action of a step is review or next, the button that
\* detection selected is clicked before the step index is incremented,
\* also when the fallback rule selected it.
AdvanceClicksDetected ==
    [][pc = "click" /\ nav.action \in {"review", "next"}
            /\ step' = step + 1
        => clicked_btn' = DetectedBtn]_vars

\* C24: a write to a control that raises (fill, select, check, radio
\* click, upload, cover-letter fill; any fault, a timeout included) is
\* swallowed: the step in which it fails puts no exception in flight and
\* decides no outcome, the next form group can still be processed, and the
\* form step goes on towards navigation detection.
FailedWriteSwallowed ==
    /\ [][("write" \in faults' /\ "write" \notin faults) =>
            /\ exc' = exc
            /\ decided' = decided
            /\ pc' \in {"groups", "cover", "nav"}]_vars
    /\ []("write" \in faults /\ "boundary" \notin faults =>
            /\ exc = NoExc
            /\ decided = NoOutcome
            /\ pc \in {"groups", "cover", "nav"}
            /\ (pc = "groups" /\ fpc = "idle" /\ calls < MaxCalls) =>
                  ENABLED FieldCall
            /\ pc # "nav" => ENABLED FieldNext)

\* no file was uploaded, a write of the first group failed, and the
\* control of the second group has been filled
FailedWriteSwallowedWitness ==
    /\ "write" \in faults
    /\ form_writes = 0
    /\ calls = 2
    /\ fpc = "radios"
    /\ label_text = <<"C", "i", "t", "y">>
    /\ writes = <<[rule |-> 1, val |-> COMMON_ANSWERS[1].val, ok |-> TRUE]>>

\* C25 (as claimed): answer_field passes a question to the generative
\* fallback only if no rule key is in the lower-cased label, the control is
\* a text input or a textarea and a key is configured, and a call sends at
\* most one request.
FallbackOnlyWithoutRule ==
    [][asked' # asked =>
          /\ \A i \in 1..Len(COMMON_ANSWERS) :
                ~IsSubstr(COMMON_ANSWERS[i].key, Lower(label_text))
          /\ \/ input_el.tag = "textarea"
             \/ input_el.tag = "input" /\ input_el.type \in {"", "text"}
          /\ GEMINI_API_KEY
          /\ Len(requests') <= Len(requests) + 1]_vars

\* the options with text that overlap a value, case-insensitively
Overlapping(options, val) ==
    {k \in 1..Len(options) :
        /\ options[k] # <<>>
        /\ \/ IsSubstr(Lower(val), Lower(options[k]))
           \/ IsSubstr(Lower(options[k]), Lower(val))}

NonEmptyOptions(options) == {k \in 1..Len(options) : options[k] # <<>>}

\* C26 (as claimed): a select to which answer_field applied the value of a
\* rule is at the first option whose text overlaps the value, or without
\* such an option at a non-empty option, and never at an option with empty
\* text.
SelectNeverPlaceholder ==
    (fpc = "radios" /\ input_el.tag = "select" /\ ret = "True") =>
        LET options == input_el.options
            val == COMMON_ANSWERS[writes[Len(writes)].rule].val
            fit == Overlapping(options, val)
        IN  /\ options[input_el.selected] # <<>>
            /\ IF fit # {}
               THEN input_el.selected = First(fit)
               ELSE input_el.selected \in NonEmptyOptions(options)

\* the call of answer_field has returned, for a control of the given type
\* whose label contains a rule key
ReturnedFor(tag, type) ==
    /\ fpc = "radios"
    /\ input_el.tag = tag
    /\ input_el.type = type
    /\ \E i \in 1..Len(COMMON_ANSWERS) : RuleMatches(i, label_lower)

\* C27 (as claimed): for a checkbox whose label matches a rule, a check is
\* issued if and only if the value of the first matching rule is yes, true
\* or 1 in any case and the box was not checked; a checked box stays
\* checked.
CheckIffFirstRuleYes ==
    ReturnedFor("input", "checkbox") =>
        LET val == COMMON_ANSWERS[FirstMatch(label_lower)].val
            yes == Lower(val) \in {<<"y", "e", "s">>,
                                   <<"t", "r", "u", "e">>, <<"1">>}
            done == \E k \in 1..Len(writes) : writes[k].ok
            was_checked == input_el.checked /\ ~done
        IN  /\ writes # <<>> <=> (yes /\ ~was_checked)
            /\ was_checked => input_el.checked

\* the radios of the group whose own label text contains the value or is
\* contained in it, case-insensitively
RadiosOverlapping(val) ==
    {k \in 1..Len(radios) :
        /\ radios[k].labelled
        /\ \/ IsSubstr(Lower(val), Lower(radios[k].text))
           \/ IsSubstr(Lower(radios[k].text), Lower(val))}

\* C28: when the handling of a radio group has completed without a fault,
\* a group whose label contains a rule key has got exactly one click, for
\* the first matching rule of the table, on the first radio whose label
\* overlaps the value of that rule or, without such a radio, on the first
\* radio; a group with an empty label or without a matching rule has got
\* no click.  answer_field itself never writes to a radio, and no group
\* gets more than one click.
RadioGroupOneClick ==
    /\ Len(radio_clicks) <= 1
    /\ (input_el.tag = "input" /\ input_el.type = "radio") => writes = <<>>
    /\ (fpc = "done" /\ radios # <<>> /\ faults = {}) =>
          IF /\ label_text # <<>>
             /\ \E i \in 1..Len(COMMON_ANSWERS) :
                   IsSubstr(COMMON_ANSWERS[i].key, Lower(label_text))
          THEN LET rule == FirstMatch(Lower(label_text))
                   fit == RadiosOverlapping(COMMON_ANSWERS[rule].val)
               IN  radio_clicks =
                      <<[rule |-> rule,
                         radio |-> IF fit # {} THEN First(fit) ELSE 1,
                         ok |-> TRUE]>>
          ELSE radio_clicks = <<>>

\* the group 'Visa sponsorship' with the radios No and Yes: one click, on
\* Yes, for the rule 'visa'
RadioGroupOneClickWitness ==
    /\ fpc = "done"
    /\ faults = {}
    /\ label_text = <<"V", "i", "s", "a", " ", "s", "p", "o", "n", "s", "o",
                      "r", "s", "h", "i", "p">>
    /\ Len(radios) = 2
    /\ radios[2].text = <<"Y", "e", "s">>
    /\ radio_clicks = <<[rule |-> 2, radio |-> 2, ok |-> TRUE]>>

\* C29 (as claimed): after answer_field has returned for a text input or a
\* textarea whose label contains a rule key, every completed write of the
\* call wrote the value of the first matching rule, unaltered, the control
\* holds that value or was not filled, and it holds that value if no
\* operation raised.
TextFilledWithFirstRuleValue ==
    (/\ fpc = "radios"
     /\ input_el.tag \in {"input", "textarea"}
     /\ input_el.type \notin {"checkbox", "radio"}
     /\ \E i \in 1..Len(COMMON_ANSWERS) : RuleMatches(i, label_lower)) =>
        LET rule == FirstMatch(label_lower)
            val == COMMON_ANSWERS[rule].val
        IN  /\ \A k \in 1..Len(writes) :
                  writes[k].ok => writes[k] = [rule |-> rule, val |-> val,
                                               ok |-> TRUE]
            /\ input_el.value \in {<<>>, val}
            /\ faults = {} => (input_el.value = val /\ ret = "True")

\* C30: for a control of a group without label text, answer_field writes
\* nothing to the control, passes nothing to the generative fallback and
\* returns False, and no radio of the group is clicked.
EmptyLabelNoMatch ==
    /\ []((label_text = <<>> /\ input_el # NoControl) =>
            /\ writes = <<>>
            /\ radio_clicks = <<>>
            /\ fpc \in {"radios", "done"} => ret = "False")
    /\ [][label_text = <<>> =>
            (requests' = requests /\ asked' = asked)]_vars

\* a radio group without label, with a key configured: the call returned
\* False and the radio handling is done
EmptyLabelNoMatchWitness ==
    /\ fpc = "done"
    /\ label_text = <<>>
    /\ input_el.type = "radio"
    /\ radios # <<>>
    /\ GEMINI_API_KEY
    /\ ret = "False"
    /\ faults = {}

\* C31: only controls that have a size and are not disabled are passed to
\* answer_field, and no write is issued on a control that is disabled or
\* has no size.
OnlyActionableControlsFilled ==
    /\ (fpc # "idle" /\ input_el # NoControl) => Actionable(input_el)
    /\ writes # <<>> => Actionable(input_el)

\* C32: the uploads a form step issues are one per file input if the CV
\* file exists and none if it does not, and no file input is passed to
\* answer_field or written by it.
UploadIffResumeExists ==
    /\ file_inputs.handled =>
          /\ file_inputs.issued =
                IF file_inputs.exists THEN file_inputs.found ELSE 0
          /\ step = 0 => form_writes = file_inputs.issued
    /\ input_el.type # "file"

\* a step with a file input and the CV in place: one upload
UploadIffResumeExistsWitness ==
    /\ file_inputs.handled
    /\ file_inputs.found = 1
    /\ file_inputs.exists
    /\ form_writes = 1

\* C33: the text get_cover_letter returns, which is what a completed fill
\* leaves in the cover textarea, is a prefix of the text of the chosen file
\* of at most 2900 characters; without a file or with an empty text the
\* textarea is not written; and a generated answer that is written is a
\* prefix of the generated text of at most 2000 characters.
TextsCutToLimit ==
    /\ cover_letter.called =>
          /\ Len(cover_letter.cl) <= CoverLimit
          /\ StartsWith(cover_letter.file.text, cover_letter.cl)
          /\ ~cover_letter.file.found => cover_letter.cl = <<>>
          /\ cover_letter.filled = "ok" =>
                cover_area.value = cover_letter.cl
          /\ cover_letter.cl = <<>> =>
                cover_letter.filled = "no" /\ form_writes = 0
    /\ \A i \in 1..Len(writes) :
          writes[i].rule = 0 =>
            /\ Len(writes[i].val) <= AnswerLimit
            /\ Strip(label_text) \in DOMAIN GEMINI_FORM_CACHE
            /\ StartsWith(GEMINI_FORM_CACHE[Strip(label_text)],
                          writes[i].val)
            /\ writes[i].ok => input_el.value = writes[i].val

\* the service returned a text longer than the answer limit, and the cover
\* letter of a file longer than the cover limit was filled in, cut
TextsCutToLimitWitness ==
    /\ cover_letter.called
    /\ cover_letter.filled = "ok"
    /\ Len(cover_letter.file.text) > CoverLimit
    /\ Len(cover_area.value) = CoverLimit
    /\ Len(requests) = 1
    /\ Len(requests[1].answer.text) > AnswerLimit

\* a row of the tracker records the url with status applied
RecordedApplied(url, rows) ==
    \E i \in 1..Len(rows) : rows[i].url = url /\ rows[i].status = "applied"

\* C34: a job whose url has a row with status applied in the tracker, from
\* the start of the run or from an earlier applied attempt of the run, is
\* not handed to apply_to_job when the job loop reaches it; it is counted as
\* skipped.
AppliedJobsSkipped ==
    [][(/\ mpc = "job"
        /\ jobs # <<>>
        /\ ~MaxReached(applied_count, max_arg)
        /\ RecordedApplied(Head(jobs), tracker))
       => (/\ mpc' = "job"
           /\ skipped_count' = skipped_count + 1
           /\ UNCHANGED <<pc, applied_count, error_count, tracker>>)]_vars

\* C35: in a step classified as submit the click goes to the button that
\* detection selected, the first visible enabled button of the submit
\* vocabulary; applied is not decided after a click on a disabled or
\* invisible button or after no click.
SubmitClicksDetected ==
    [][(/\ pc = "click"
        /\ nav.action = "submit"
        /\ \/ submit_clicks' # submit_clicks
           \/ decided' = Applied)
       => (/\ submit_clicks' = submit_clicks + 1
           /\ clicked_btn' = First(Shows(SUBMIT_LABELS))
           /\ allBtns(buttons[clicked_btn'])
           /\ MatchesLabels(buttons[clicked_btn'], SUBMIT_LABELS))]_vars

\* C36 as stated: at navigation time a cover textarea that answer_field
\* wrote in the step holds the cover-letter text.
CoverTextReplacesAnswer ==
    pc = "nav" /\ cover_area.resolver =>
        /\ cover_letter.called
        /\ cover_area.value = cover_letter.cl

\* C36, amended: the cover-letter fill comes after the form groups of the
\* step, so a cover textarea that answer_field wrote holds the cover-letter
\* text at navigation time when a cover letter was found and its fill
\* completed; with no cover letter, or when the fill raises, it keeps the
\* answer.
CoverFillIsLast ==
    /\ [](/\ pc \in {"cover", "nav"} => fpc = "idle"
          /\ cover_letter.called => pc = "nav"
          /\ pc = "nav" /\ cover_area.resolver /\ cover_letter.filled = "ok"
                => /\ cover_letter.cl # <<>>
                   /\ cover_area.value = cover_letter.cl)
    /\ [][pc = "cover" /\ pc' = "nav" /\ cover_letter'.filled # "ok"
            => cover_area'.value = cover_area.value]_vars

\* answer_field filled the cover textarea and the cover letter replaced the
\* answer
CoverFillIsLastWitness ==
    /\ pc = "nav"
    /\ cover_area.resolver
    /\ cover_letter.filled = "ok"
    /\ Len(cover_area.value) = CoverLimit
    /\ cover_area.value = cover_letter.cl

\* the same row of the tracker, whatever its status
SameRow(r1, r2) == r1.id = r2.id /\ r1.key = r2.key /\ r1.url = r2.url

\* C37: no apply.py command and no search_jobs save takes a row that is
\* applied back to another status.
AppliedStaysApplied ==
    [][\A i \in 1..Len(tracker) :
          (/\ tracker[i].status = "applied"
           /\ i <= Len(tracker')
           /\ SameRow(tracker'[i], tracker[i]))
          => tracker'[i].status = "applied"]_vars

\* C38: the ids of the rows of the tracker are pairwise distinct.
RowIdsDistinct ==
    \A i, j \in 1..Len(tracker) : i # j => tracker[i].id # tracker[j].id

\* C39: a search_jobs run leaves every row of the tracker in its place with
\* its values, rows of one title and company included, and only appends
\* rows.
SaveKeepsRows ==
    [][SearchSave =>
          /\ Len(tracker') >= Len(tracker)
          /\ \A i \in 1..Len(tracker) : tracker'[i] = tracker[i]]_vars

====
